---- MODULE Spec2Model ----
(***************************************************************************)
(* A model of gomodels: the migration executor with its ledger, the        *)
(* condition builders and the predicate compiler with the engine calls     *)
(* that use it, and the diff engine.                                        *)
(*                                                                         *)
(* Several specifications share the module, among them:                    *)
(*   Spec      the migration executor (apply / rollback over mocked        *)
(*             operations and a ledger)                                     *)
(*   SpecCond  condition chains, predicate compilation, engine queries     *)
(*   SpecDiff  model declaration changes and getModelChanges               *)
(* Each one moves its own variables and leaves the others at rest.         *)
(***************************************************************************)
EXTENDS Integers, Sequences, FiniteSets, TLC

VARIABLES
    \* ---- migration executor
    ops,        \* ops[m][i]: the i-th mockedOperation of migration m
    ledger,     \* the ledger rows of the application, as migration numbers
    schema,     \* the operations whose forward DDL is in effect in the database
    appState,   \* the operations whose SetState reached the in-memory state
    pc,         \* the position of the running apply / rollback call
    call,       \* the running call: [kind, target]
    cur,        \* the migration being processed (0: none)
    idx,        \* the operation of cur to be called next
    tx,         \* the open transaction: what an abort restores
    calls,      \* what this call did so far, in order
    result,     \* what the last finished call returned
    atCall,     \* ledger and schema when the call started
    failedAt,   \* the migration whose failure made the last call return an error
    \* ---- conditions, compiler, engines
    cond,       \* the Conditioner built so far (NoCond: none)
    built,      \* the builder calls that produced cond: first leaf, then links
    compiled,   \* the results of compiling cond, one per compilation
    queries,    \* the statements handed to the database (dbMocker.queries)
    lastCall,   \* the last engine call: its name, inputs and error
    \* ---- diff engine
    declared,   \* the declared model
    history,    \* history[app]: the prior Application State (its models)
    operations, \* what the last getModelChanges returned
    diffed,     \* the model and the state the last getModelChanges was given
    modelErr,   \* the error the last call on the declared model returned
    \* ---- state replay
    models,     \* AppState.Models: the snapshots the operations have built
    applied,    \* the SetState calls made so far: operation, error, state before
    ran,        \* the engine calls that Run and Backwards have made on the tx
    \* ---- sqlite engine: schema changes
    emodel,     \* the model whose table the database holds
    tables,     \* the database: the columns of each table
    executed,   \* the statements the last call handed to the database
    ddl,        \* the last call: method, model, fields, failing statement, result
    \* ---- operation lists as JSON
    opList,     \* the OperationList that UnmarshalJSON is called on
    codec,      \* the last MarshalJSON / UnmarshalJSON call and what it returned
    \* ---- instances
    inst,       \* the instance: its model's pk kind, its container and pk value
    store,      \* the pk values of the rows of the model's table
    saved,      \* the last Save: its inputs, the engine calls it made, its error
    \* ---- engine transactions
    engines,    \* the engine values: the tx each one is bound to (0: none)
    txs,        \* the transactions of the database: open, committed, rolled back
    txCall      \* the last BeginTx / CommitTx / RollbackTx and what it returned

migVars  == <<ops, ledger, schema, appState, pc, call, cur, idx, tx, calls,
              result, atCall, failedAt>>
condVars == <<cond, built, compiled, queries, lastCall>>
diffVars == <<declared, history, operations, diffed, modelErr>>
replayVars == <<models, applied, ran>>
engVars  == <<emodel, tables, executed, ddl>>
jsonVars == <<opList, codec>>
saveVars == <<inst, store, saved>>
txVars   == <<engines, txs, txCall>>
restVars == <<jsonVars, saveVars, txVars>>
vars     == <<migVars, condVars, diffVars, replayVars, engVars, restVars>>

-----------------------------------------------------------------------------
(* Bounds *)

NMig == 3      \* migrations of the application
NOps == 2      \* operations per migration

-----------------------------------------------------------------------------
(* Helpers *)

Range(s) == {s[i] : i \in 1..Len(s)}

Last(s) == s[Len(s)]

\* every enumeration of the finite set S: the orders a Go map range may take
RECURSIVE Perms(_)
Perms(S) ==
    IF S = {} THEN {<<>>}
    ELSE UNION {{<<x>> \o p : p \in Perms(S \ {x})} : x \in S}

-----------------------------------------------------------------------------
(* mockedOperation: the operation the executor's tests run *)

NewMock == [run |-> FALSE, back |-> FALSE, state |-> FALSE,
            StateErr |-> FALSE, RunErr |-> FALSE]

\* mockedOperation.reset
MockReset(op) == NewMock

\* a SetState that reports success although StateErr is set
MockSetState_Swallow(op) ==
    [err |-> FALSE, op |-> [op EXCEPT !.state = ~op.StateErr]]

\* mockedOperation.SetState
MockSetState(op) ==
    IF op.StateErr THEN [err |-> TRUE, op |-> op]
    ELSE [err |-> FALSE, op |-> [op EXCEPT !.state = TRUE]]

\* a Run that reports success although RunErr is set
MockRun_Swallow(op) ==
    [err |-> FALSE, op |-> [op EXCEPT !.run = ~op.RunErr]]

\* mockedOperation.Run
MockRun(op) ==
    IF op.RunErr THEN [err |-> TRUE, op |-> op]
    ELSE [err |-> FALSE, op |-> [op EXCEPT !.run = TRUE]]

\* a Backwards that reports success although RunErr is set
MockBackwards_Swallow(op) ==
    [err |-> FALSE, op |-> [op EXCEPT !.back = ~op.RunErr]]

\* mockedOperation.Backwards
MockBackwards(op) ==
    IF op.RunErr THEN [err |-> TRUE, op |-> op]
    ELSE [err |-> FALSE, op |-> [op EXCEPT !.back = TRUE]]

-----------------------------------------------------------------------------
(* The migration executor: apply(app, target) and rollback(app, target) *)

NoCall == [kind |-> "none", target |-> 0]

NoTx == [active |-> FALSE, ledger |-> <<>>, schema |-> {}]

\* the operations of a set of migrations
OpsOf(migs) == {<<m, i>> : m \in migs, i \in 1..NOps}

\* the number of the last applied migration, 0 on an empty ledger
LastApplied(l) ==
    IF l = <<>> THEN 0 ELSE CHOOSE m \in Range(l) : \A n \in Range(l) : n <= m

\* the first migration up to target that has no ledger row, 0 if there is none
NextUnapplied(l, target) ==
    LET todo == {m \in 1..target : m \notin Range(l)}
    IN  IF todo = {} THEN 0 ELSE CHOOSE m \in todo : \A n \in todo : m <= n

\* a check against the ledger that misses the target itself
FirstToApply_Reapply(l, target) ==
    IF target \in Range(l) THEN target ELSE NextUnapplied(l, target)

\* the migration an apply call starts with: the ledger decides what is applied
FirstToApply(l, target) == NextUnapplied(l, target)

\* the last applied migration above target, 0 if there is none
NextToUndo(l, target) ==
    IF LastApplied(l) > target THEN LastApplied(l) ELSE 0

Event(e, m, i, err) == [e |-> e, m |-> m, i |-> i, err |-> err]

\* beginTx: what an abort of the migration's transaction goes back to
BeginTx == [active |-> TRUE, ledger |-> ledger, schema |-> schema]

MigInit ==
    /\ ops = [m \in 1..NMig |-> [i \in 1..NOps |-> NewMock]]
    /\ ledger = <<>>
    /\ schema = {}
    /\ appState = {}
    /\ pc = "idle"
    /\ call = NoCall
    /\ cur = 0
    /\ idx = 0
    /\ tx = NoTx
    /\ calls = <<>>
    /\ result = "none"
    /\ atCall = [ledger |-> <<>>, schema |-> {}]
    /\ failedAt = 0

\* the test arranges the operations: reset them all, then make one fail
Arrange(fail) ==
    /\ pc \in {"idle", "done"}
    /\ ops' = [m \in 1..NMig |-> [i \in 1..NOps |->
                 IF fail = <<m, i, "state">>
                 THEN [MockReset(ops[m][i]) EXCEPT !.StateErr = TRUE]
                 ELSE IF fail = <<m, i, "run">>
                 THEN [MockReset(ops[m][i]) EXCEPT !.RunErr = TRUE]
                 ELSE MockReset(ops[m][i])]]
    /\ pc' = "idle"
    /\ call' = NoCall
    /\ calls' = <<>>
    /\ result' = "none"
    /\ cur' = 0
    /\ idx' = 0
    /\ UNCHANGED <<ledger, schema, appState, tx, atCall, failedAt>>
    /\ UNCHANGED <<condVars, diffVars, replayVars, engVars, restVars>>

\* the failing step of a migration: the transaction is aborted, the call returns
Abort(newOps, ev) ==
    /\ ops' = newOps
    /\ calls' = Append(calls, ev)
    /\ ledger' = tx.ledger
    /\ schema' = tx.schema
    /\ tx' = [tx EXCEPT !.active = FALSE]
    /\ pc' = "done"
    /\ result' = "error"
    /\ failedAt' = IF call.kind = "apply" THEN cur ELSE failedAt
    /\ UNCHANGED <<appState, call, cur, idx, atCall>>

\* apply(app, target): the call starts; with nothing to apply it returns at once
ApplyStart(target) ==
    /\ pc \in {"idle", "done"}
    /\ call' = [kind |-> "apply", target |-> target]
    /\ atCall' = [ledger |-> ledger, schema |-> schema]
    /\ calls' = <<>>
    /\ appState' = OpsOf(Range(ledger))
    /\ LET m == FirstToApply(ledger, target)
       IN  IF m = 0
           THEN /\ pc' = "done"
                /\ result' = "ok"
                /\ cur' = 0
                /\ idx' = 0
                /\ tx' = tx
           ELSE /\ pc' = "setstate"
                /\ result' = "none"
                /\ cur' = m
                /\ idx' = 1
                /\ tx' = BeginTx
    /\ UNCHANGED <<ops, ledger, schema, failedAt>>
    /\ UNCHANGED <<condVars, diffVars, replayVars, engVars, restVars>>

\* SetState of the next operation of the migration
ApplySetState ==
    /\ pc = "setstate"
    /\ LET r == MockSetState(ops[cur][idx])
           newOps == [ops EXCEPT ![cur][idx] = r.op]
           ev == Event("SetState", cur, idx, r.err)
       IN  IF r.err
           THEN Abort(newOps, ev)
           ELSE /\ ops' = newOps
                /\ calls' = Append(calls, ev)
                /\ appState' = appState \cup {<<cur, idx>>}
                /\ IF idx = NOps
                   THEN pc' = "run" /\ idx' = 1
                   ELSE pc' = pc /\ idx' = idx + 1
                /\ UNCHANGED <<ledger, schema, call, cur, tx, result, atCall,
                               failedAt>>
    /\ UNCHANGED <<condVars, diffVars, replayVars, engVars, restVars>>

\* Run of the next operation of the migration
ApplyRun ==
    /\ pc = "run"
    /\ LET r == MockRun(ops[cur][idx])
           newOps == [ops EXCEPT ![cur][idx] = r.op]
           ev == Event("Run", cur, idx, r.err)
       IN  IF r.err
           THEN Abort(newOps, ev)
           ELSE /\ ops' = newOps
                /\ calls' = Append(calls, ev)
                /\ schema' = schema \cup {<<cur, idx>>}
                /\ IF idx = NOps
                   THEN pc' = "record" /\ idx' = 0
                   ELSE pc' = pc /\ idx' = idx + 1
                /\ UNCHANGED <<ledger, appState, call, cur, tx, result, atCall,
                               failedAt>>
    /\ UNCHANGED <<condVars, diffVars, replayVars, engVars, restVars>>

\* the ledger row of the migration is appended and its transaction committed;
\* the call goes on with the next unapplied migration or returns
ApplyRecord ==
    /\ pc = "record"
    /\ ledger' = Append(ledger, cur)
    /\ calls' = Append(calls, Event("Record", cur, 0, FALSE))
    /\ failedAt' = IF failedAt = cur THEN 0 ELSE failedAt
    /\ LET m == NextUnapplied(ledger', call.target)
       IN  IF m = 0
           THEN /\ pc' = "done"
                /\ result' = "ok"
                /\ tx' = [tx EXCEPT !.active = FALSE]
                /\ UNCHANGED <<cur, idx>>
           ELSE /\ pc' = "setstate"
                /\ result' = result
                /\ cur' = m
                /\ idx' = 1
                /\ tx' = [active |-> TRUE, ledger |-> ledger', schema |-> schema]
    /\ UNCHANGED <<ops, schema, appState, call, atCall>>
    /\ UNCHANGED <<condVars, diffVars, replayVars, engVars, restVars>>

\* rollback(app, target): the call starts; with nothing to undo it returns at once
RollbackStart(target) ==
    /\ pc \in {"idle", "done"}
    /\ call' = [kind |-> "rollback", target |-> target]
    /\ atCall' = [ledger |-> ledger, schema |-> schema]
    /\ calls' = <<>>
    /\ appState' = OpsOf(Range(ledger))
    /\ LET m == NextToUndo(ledger, target)
       IN  IF m = 0
           THEN /\ pc' = "done"
                /\ result' = "ok"
                /\ cur' = 0
                /\ idx' = 0
                /\ tx' = tx
           ELSE /\ pc' = "backwards"
                /\ result' = "none"
                /\ cur' = m
                /\ idx' = NOps
                /\ tx' = BeginTx
    /\ UNCHANGED <<ops, ledger, schema, failedAt>>
    /\ UNCHANGED <<condVars, diffVars, replayVars, engVars, restVars>>

\* Backwards of the next operation of the migration, last declared first
RollbackBackwards ==
    /\ pc = "backwards"
    /\ LET r == MockBackwards(ops[cur][idx])
           newOps == [ops EXCEPT ![cur][idx] = r.op]
           ev == Event("Backwards", cur, idx, r.err)
       IN  IF r.err
           THEN Abort(newOps, ev)
           ELSE /\ ops' = newOps
                /\ calls' = Append(calls, ev)
                /\ schema' = schema \ {<<cur, idx>>}
                /\ IF idx = 1
                   THEN pc' = "unrecord" /\ idx' = 0
                   ELSE pc' = pc /\ idx' = idx - 1
                /\ UNCHANGED <<ledger, appState, call, cur, tx, result, atCall,
                               failedAt>>
    /\ UNCHANGED <<condVars, diffVars, replayVars, engVars, restVars>>

\* the ledger row of the migration is deleted and its transaction committed;
\* the call goes on with the migration before it or returns
RollbackUnrecord ==
    /\ pc = "unrecord"
    /\ ledger' = SelectSeq(ledger, LAMBDA n : n # cur)
    /\ calls' = Append(calls, Event("Unrecord", cur, 0, FALSE))
    /\ appState' = appState \ OpsOf({cur})
    /\ failedAt' = 0
    /\ LET m == NextToUndo(ledger', call.target)
       IN  IF m = 0
           THEN /\ pc' = "done"
                /\ result' = "ok"
                /\ tx' = [tx EXCEPT !.active = FALSE]
                /\ UNCHANGED <<cur, idx>>
           ELSE /\ pc' = "backwards"
                /\ result' = result
                /\ cur' = m
                /\ idx' = NOps
                /\ tx' = [active |-> TRUE, ledger |-> ledger', schema |-> schema]
    /\ UNCHANGED <<ops, schema, call, atCall>>
    /\ UNCHANGED <<condVars, diffVars, replayVars, engVars, restVars>>

Failures == {<<>>} \cup {<<m, i, k>> : m \in 1..NMig, i \in 1..NOps,
                                        k \in {"state", "run"}}

-----------------------------------------------------------------------------
(* Conditions: Q and condChain *)

MaxLinks == 2     \* builder calls made on one leaf

\* the condition keys are the words of the Go string: "pk >=" is <<"pk", ">=">>
QActive == (<<"active">> :> 1)
QEmail  == (<<"email">> :> 2)
QPk     == (<<"pk", ">=">> :> 3)
QTwo    == (<<"active">> :> 1) @@ (<<"email", "<">> :> 2)
QBad    == (<<"username">> :> 4)
QEmpty  == <<>>

\* a Q as a Conditioner value
QCond(q) == [kind |-> "Q", q |-> q]

\* condChain
Chain(root, next, or, not) ==
    [kind |-> "chain", root |-> root, next |-> next, or |-> or, not |-> not]

NoCond == [kind |-> "nil"]

\* Q.Predicate / condChain.Predicate
Predicate(c) == IF c.kind = "Q" THEN c.q ELSE c.root

\* Q.Next / condChain.Next
NextOf(c) ==
    IF c.kind = "Q" THEN [next |-> NoCond, or |-> FALSE, not |-> FALSE]
    ELSE [next |-> c.next, or |-> c.or, not |-> c.not]

\* Q.And / condChain.And
And(c, next) ==
    IF c.kind = "Q" THEN Chain(c.q, next, FALSE, FALSE)
    ELSE [c EXCEPT !.next = next]

\* Q.AndNot / condChain.AndNot
AndNot(c, next) ==
    IF c.kind = "Q" THEN Chain(c.q, next, FALSE, TRUE)
    ELSE [c EXCEPT !.next = next, !.not = TRUE]

\* Q.Or / condChain.Or
Or(c, next) ==
    IF c.kind = "Q" THEN Chain(c.q, next, TRUE, FALSE)
    ELSE [c EXCEPT !.next = next, !.or = TRUE]

\* Q.OrNot / condChain.OrNot
OrNot(c, next) ==
    IF c.kind = "Q" THEN Chain(c.q, next, TRUE, TRUE)
    ELSE [c EXCEPT !.next = next, !.or = TRUE, !.not = TRUE]

\* the builder named op
Build(op, c, next) ==
    CASE op = "And"    -> And(c, next)
      [] op = "AndNot" -> AndNot(c, next)
      [] op = "Or"     -> Or(c, next)
      [] op = "OrNot"  -> OrNot(c, next)

\* the conditions a Conditioner holds, walking Predicate and Next
RECURSIVE LeafSeq(_)
LeafSeq(c) ==
    IF c.kind = "nil" THEN <<>>
    ELSE <<Predicate(c)>> \o LeafSeq(NextOf(c).next)

RECURSIVE SumSeq(_)
SumSeq(s) == IF s = <<>> THEN 0 ELSE Head(s) + SumSeq(Tail(s))

\* the number of field conditions a Conditioner holds
NumConds(c) ==
    LET ls == LeafSeq(c)
    IN  SumSeq([i \in 1..Len(ls) |-> Cardinality(DOMAIN ls[i])])

-----------------------------------------------------------------------------
(* The model the engine tests query *)

FieldOf(column) == [Column |-> column]

UserModel ==
    [name   |-> "User",
     pk     |-> "id",
     table  |-> "users_user",
     fields |-> [id |-> FieldOf(""), email |-> FieldOf(""),
                 active |-> FieldOf("is_active")]]

\* CharField.DBColumn (every field type has the same)
DBColumn(field, name) == IF field.Column # "" THEN field.Column ELSE name

\* fieldInList
fieldInList(name, fields) == name \in Range(fields)

-----------------------------------------------------------------------------
(* The predicate compiler: compile(tree, dialect, startArgIndex) *)

Tok(t) == [t |-> t]

\* one comparison: column, operator, placeholder number (0: the "?" of
\* sqlite3); v is the value the placeholder stands for, not part of the text
CondTok(col, op, ph, v) == [t |-> "cond", col |-> col, op |-> op, ph |-> ph, v |-> v]

\* the condition key: field name and optional operator, "=" by default
ParseKey(key) ==
    [field |-> key[1], op |-> IF Len(key) >= 2 THEN key[2] ELSE "="]

\* the field a condition names: pk stands for the primary key
Resolve(model, name) == IF name = "pk" THEN model.pk ELSE name

Resolvable(model, key) ==
    Resolve(model, ParseKey(key).field) \in DOMAIN model.fields

PlaceHolder(dialect, n) == IF dialect = "postgres" THEN n ELSE 0

\* the column a resolvable key compares; the name as written otherwise
ColumnOf(model, key) ==
    LET name == Resolve(model, ParseKey(key).field)
    IN  IF name \in DOMAIN model.fields
        THEN DBColumn(model.fields[name], name) ELSE name

\* a leaf predicate whose map is ranged over in the order ord
LeafCompile(model, q, ord, dialect, start) ==
    LET n == Len(ord)
        cnd(i) == CondTok(ColumnOf(model, ord[i]), ParseKey(ord[i]).op,
                          PlaceHolder(dialect, start + i - 1), q[ord[i]])
    IN  [stmt |-> [j \in 1..(IF n = 0 THEN 0 ELSE 2 * n - 1) |->
                      IF j % 2 = 1 THEN cnd((j + 1) \div 2) ELSE Tok("AND")],
         args |-> [i \in 1..n |-> q[ord[i]]],
         err  |-> \E k \in DOMAIN q : ~Resolvable(model, k)]

\* one link: the compiled left side in a group, the combinator, NOT when the
\* link is negated, the right side in its own group; an empty left side
\* leaves only the right group
Link(l, or, not, r) ==
    LET right == (IF not THEN <<Tok("NOT")>> ELSE <<>>)
                 \o <<Tok("(")>> \o r.stmt \o <<Tok(")")>>
    IN  [stmt |-> IF l.stmt = <<>> THEN right
                  ELSE <<Tok("(")>> \o l.stmt \o <<Tok(")")>>
                       \o <<Tok(IF or THEN "OR" ELSE "AND")>> \o right,
         args |-> l.args \o r.args,
         err  |-> l.err \/ r.err]

\* what compiling c may return: one result per order the maps are ranged in
RECURSIVE PredicateSet(_, _, _, _)
PredicateSet(model, c, dialect, start) ==
    LET q == Predicate(c)
        nx == NextOf(c)
        left == {LeafCompile(model, q, ord, dialect, start) :
                    ord \in Perms(DOMAIN q)}
    IN  IF nx.next.kind = "nil" THEN left
        ELSE UNION {{Link(l, nx.or, nx.not, r) :
                       r \in PredicateSet(model, nx.next, dialect,
                                          start + Cardinality(DOMAIN q))} :
                    l \in left}

-----------------------------------------------------------------------------
(* Engine calls that compile a condition into their statement *)

Nil == 0     \* the nil Value of a container

\* the items of s with sep between them
Join(s, sep) ==
    [j \in 1..(IF s = <<>> THEN 0 ELSE 2 * Len(s) - 1) |->
        IF j % 2 = 1 THEN s[(j + 1) \div 2] ELSE sep]

NoPredicate == [stmt |-> <<>>, args |-> <<>>, err |-> FALSE]

\* PostgresEngine.UpdateRows: the field the loop takes a column from
PgTakes(model, cont, fields, name) ==
    /\ name # model.pk
    /\ (fields = <<>> \/ fieldInList(name, fields))
    /\ name \in DOMAIN cont
    /\ cont[name] # Nil

\* PostgresEngine.UpdateRows: the loop over model.fields, ranged in the order ord
PgSetClause(model, cont, fields, ord) ==
    LET names == SelectSeq(ord, LAMBDA n : PgTakes(model, cont, fields, n))
    IN  [cols  |-> [i \in 1..Len(names) |->
                      CondTok(DBColumn(model.fields[names[i]], names[i]), "=",
                              i, cont[names[i]])],
         vals  |-> [i \in 1..Len(names) |-> cont[names[i]]],
         index |-> Len(names) + 1]

\* the statement and arguments of an UPDATE with the SET clause sc and the
\* compiled predicate p
UpdateQuery(model, sc, hasCond, p) ==
    [stmt |-> <<Tok("UPDATE"), Tok(model.table), Tok("SET")>>
              \o Join(sc.cols, Tok(","))
              \o (IF hasCond THEN <<Tok("WHERE")>> \o p.stmt ELSE <<>>),
     args |-> IF hasCond THEN sc.vals \o p.args ELSE sc.vals]

\* an UpdateRows whose WHERE clause numbers its placeholders from 1 again
PgUpdateRows_Restart(model, cont, c, fields) ==
    UNION {{UpdateQuery(model, sc, c.kind # "nil", p) :
              p \in IF c.kind = "nil" THEN {NoPredicate}
                    ELSE PredicateSet(model, c, "postgres", 1)} :
           sc \in {PgSetClause(model, cont, fields, ord) :
                     ord \in Perms(DOMAIN model.fields)}}

\* PostgresEngine.UpdateRows: the queries it may hand to Exec
PgUpdateRows(model, cont, c, fields) ==
    UNION {{UpdateQuery(model, sc, c.kind # "nil", p) :
              p \in IF c.kind = "nil" THEN {NoPredicate}
                    ELSE PredicateSet(model, c, "postgres", sc.index)} :
           sc \in {PgSetClause(model, cont, fields, ord) :
                     ord \in Perms(DOMAIN model.fields)}}

\* GenericQuerySet.Update: the loop over qs.model.fields, ranged in the order ord
QsSetClause(model, cont, ord) ==
    LET names == SelectSeq(ord, LAMBDA n : n \in DOMAIN cont)
    IN  [cols  |-> [i \in 1..Len(names) |->
                      CondTok(names[i], "=", i, cont[names[i]])],
         vals  |-> [i \in 1..Len(names) |-> cont[names[i]]],
         index |-> Len(names) + 1]

\* GenericQuerySet.Update on a postgres database: the queries it may hand to Exec
QsUpdate(model, cont, c) ==
    UNION {{UpdateQuery(model, sc, c.kind # "nil", p) :
              p \in IF c.kind = "nil" THEN {NoPredicate}
                    ELSE PredicateSet(model, c, "postgres", sc.index)} :
           sc \in {QsSetClause(model, cont, ord) :
                     ord \in Perms(DOMAIN model.fields)}}

\* GenericQuerySet.Delete on a postgres database: the queries it may hand to
\* Exec. Each entry of args is what one variadic argument holds: a value, or
\* a slice of values; append(values, vals) adds the slice vals as one entry
QsDelete(model, c) ==
    LET base == <<Tok("DELETE"), Tok("FROM"), Tok(model.table)>>
    IN  IF c.kind = "nil"
        THEN {[stmt |-> base, args |-> <<>>]}
        ELSE {[stmt |-> base \o <<Tok("WHERE")>> \o p.stmt,
               args |-> <<[slice |-> TRUE, v |-> p.args]>>] :
                 p \in PredicateSet(model, c, "postgres", 1)}

\* QueryOptions
QueryOptions(c, fields, start, end) ==
    [Conditioner |-> c, Fields |-> fields, Start |-> start, End |-> end]

\* SelectQuery: the SELECT of the listed fields with the compiled condition,
\* or the compiler's error
SelectQuery(model, opt) ==
    LET cols == [i \in 1..Len(opt.Fields) |->
                    Tok(ColumnOf(model, <<opt.Fields[i]>>))]
        base == <<Tok("SELECT")>> \o Join(cols, Tok(","))
                \o <<Tok("FROM"), Tok(model.table)>>
    IN  IF opt.Conditioner.kind = "nil"
        THEN {[stmt |-> base, args |-> <<>>, err |-> FALSE]}
        ELSE {[stmt |-> base \o <<Tok("WHERE")>> \o p.stmt,
               args |-> p.args, err |-> p.err] :
                 p \in PredicateSet(model, opt.Conditioner, "sqlite3", 1)}

Sent(q) == [err |-> FALSE, sent |-> <<q>>]

Failed == [err |-> TRUE, sent |-> <<>>]

\* SqliteEngine.GetRows: LIMIT and OFFSET of the options
LimitOffset(opt) ==
    (IF opt.End > 0 THEN <<[t |-> "LIMIT", n |-> opt.End - opt.Start]>>
     ELSE IF opt.Start > 0 THEN <<[t |-> "LIMIT", n |-> -1]>>
     ELSE <<>>)
    \o (IF opt.Start > 0 THEN <<[t |-> "OFFSET", n |-> opt.Start]>> ELSE <<>>)

\* a GetRows that does not look at the error of SelectQuery
SqGetRows_IgnoreErr(model, opt) ==
    {Sent([stmt |-> q.stmt \o LimitOffset(opt), args |-> q.args]) :
        q \in SelectQuery(model, opt)}

\* SqliteEngine.GetRows: the error it returns and the query it hands to Query
SqGetRows(model, opt) ==
    {IF q.err THEN Failed
     ELSE Sent([stmt |-> q.stmt \o LimitOffset(opt), args |-> q.args]) :
        q \in SelectQuery(model, opt)}

\* CountRows
SqCountRows(model, opt) ==
    LET base == <<Tok("SELECT"), Tok("COUNT(*)"), Tok("FROM"), Tok(model.table)>>
    IN  IF opt.Conditioner.kind = "nil"
        THEN {Sent([stmt |-> base, args |-> <<>>])}
        ELSE {IF p.err THEN Failed
              ELSE Sent([stmt |-> base \o <<Tok("WHERE")>> \o p.stmt,
                         args |-> p.args]) :
                 p \in PredicateSet(model, opt.Conditioner, "sqlite3", 1)}

\* Exists
SqExists(model, opt) ==
    {IF q.err THEN Failed
     ELSE Sent([stmt |-> <<Tok("SELECT"), Tok("EXISTS"), Tok("(")>> \o q.stmt
                         \o <<Tok(")")>>,
                args |-> q.args]) :
        q \in SelectQuery(model, [opt EXCEPT !.Fields = <<model.pk>>])}

-----------------------------------------------------------------------------
(* The variables of the other parts at rest *)

NoEngineCall == [fn |-> "none", cont |-> <<>>, fields |-> <<>>, err |-> FALSE]

CondIdle ==
    /\ cond = NoCond
    /\ built = <<>>
    /\ compiled = <<>>
    /\ queries = <<>>
    /\ lastCall = NoEngineCall

NoModel == [name |-> ""]

DiffIdle ==
    /\ declared = NoModel
    /\ history = <<>>
    /\ operations = <<>>
    /\ diffed = <<>>
    /\ modelErr = ""

ReplayIdle ==
    /\ models = <<>>
    /\ applied = <<>>
    /\ ran = <<>>

NoDDL == [fn |-> "none", n |-> 0, result |-> "ok"]

EngineIdle ==
    /\ emodel = NoModel
    /\ tables = <<>>
    /\ executed = <<>>
    /\ ddl = NoDDL

-----------------------------------------------------------------------------
(* The migration executor's specification *)

\* no operation list has been encoded or decoded
NoCodec == [fn |-> "none", n |-> 0]

JSONIdle ==
    /\ opList = <<>>
    /\ codec = NoCodec

\* no instance has been saved
NoSave == [fn |-> "none", n |-> 0]

SaveIdle ==
    /\ inst = [auto |-> FALSE]
    /\ store = {}
    /\ saved = NoSave

\* one engine value without a transaction, and no call made
NoTxCall == [fn |-> "none", n |-> 0]

TxIdle ==
    /\ engines = <<[tx |-> 0]>>
    /\ txs = <<>>
    /\ txCall = NoTxCall

RestIdle == JSONIdle /\ SaveIdle /\ TxIdle

Init == MigInit /\ CondIdle /\ DiffIdle /\ ReplayIdle /\ EngineIdle /\ RestIdle

Next ==
    \/ \E f \in Failures : Arrange(f)
    \/ \E t \in 1..NMig : ApplyStart(t)
    \/ ApplySetState
    \/ ApplyRun
    \/ ApplyRecord
    \/ \E t \in 0..NMig : RollbackStart(t)
    \/ RollbackBackwards
    \/ RollbackUnrecord

Spec == Init /\ [][Next]_vars

-----------------------------------------------------------------------------
(* Claims about the migration executor *)

Pos == 1..Len(calls)

Records == SelectSeq(calls, LAMBDA ev : ev.e = "Record")

Unrecords == SelectSeq(calls, LAMBDA ev : ev.e = "Unrecord")

MigsOf(evs) == [p \in 1..Len(evs) |-> evs[p].m]

\* C1: within one apply call the unapplied migrations are processed in
\* strictly ascending order up to the target, none skipped; in each migration
\* every SetState has reached the Application State before any Run, SetState
\* and Run go in declaration order, and the ledger row is appended only after
\* every Run of the migration has succeeded.
Thm_C1_ApplyOrder ==
    call.kind = "apply" =>
        /\ \A q \in Pos :
              /\ calls[q].m <= call.target
              /\ calls[q].m \notin Range(atCall.ledger)
              /\ \A n \in 1..(calls[q].m - 1) : n \in Range(ledger)
        /\ \A p, q \in Pos : p < q =>
              /\ calls[p].m <= calls[q].m
              /\ calls[p].e = "Record" => calls[p].m < calls[q].m
              /\ calls[p].m = calls[q].m =>
                    /\ calls[q].e = "SetState" =>
                          calls[p].e = "SetState" /\ calls[p].i < calls[q].i
                    /\ calls[q].e = "Run" =>
                          \/ calls[p].e = "SetState"
                          \/ calls[p].e = "Run" /\ calls[p].i < calls[q].i
        /\ \A q \in Pos : calls[q].e = "Run" =>
              \A i \in 1..NOps :
                  /\ \E p \in 1..(q - 1) :
                        calls[p] = Event("SetState", calls[q].m, i, FALSE)
                  /\ <<calls[q].m, i>> \in appState
                  /\ ops[calls[q].m][i].state
        /\ \A q \in Pos : calls[q].e = "Record" =>
              \A i \in 1..NOps :
                  /\ \E p \in 1..(q - 1) :
                        calls[p] = Event("Run", calls[q].m, i, FALSE)
                  /\ ops[calls[q].m][i].run
        /\ ledger = atCall.ledger \o MigsOf(Records)

\* an apply call that has recorded two migrations and returned
Wit_C1_TwoMigrationsApplied ==
    /\ call.kind = "apply"
    /\ pc = "done"
    /\ result = "ok"
    /\ Len(Records) >= 2

\* C2: within one rollback call the applied migrations are undone in strictly
\* descending order down to but not including the target; in each migration
\* Backwards goes in reverse declaration order and the ledger row is deleted
\* only after every Backwards succeeded; after the rollback the ledger holds
\* exactly the rows with number <= target.
Thm_C2_RollbackOrder ==
    call.kind = "rollback" =>
        /\ \A q \in Pos :
              /\ calls[q].m > call.target
              /\ calls[q].m \in Range(atCall.ledger)
              /\ \A n \in Range(atCall.ledger) :
                    n > calls[q].m => n \notin Range(ledger)
        /\ \A p, q \in Pos : p < q =>
              /\ calls[p].m >= calls[q].m
              /\ calls[p].e = "Unrecord" => calls[p].m > calls[q].m
              /\ (calls[p].m = calls[q].m /\ calls[q].e = "Backwards") =>
                    calls[p].e = "Backwards" /\ calls[p].i > calls[q].i
        /\ \A q \in Pos : calls[q].e = "Unrecord" =>
              \A i \in 1..NOps :
                  /\ \E p \in 1..(q - 1) :
                        calls[p] = Event("Backwards", calls[q].m, i, FALSE)
                  /\ ops[calls[q].m][i].back
        /\ \A n \in Range(atCall.ledger) :
              n \in Range(ledger) \/ n \in Range(MigsOf(Unrecords))
        /\ (pc = "done" /\ result = "ok") =>
              ledger = SelectSeq(atCall.ledger, LAMBDA n : n <= call.target)

\* a rollback that has undone two migrations, kept one and returned
Wit_C2_TwoMigrationsUndone ==
    /\ call.kind = "rollback"
    /\ pc = "done"
    /\ result = "ok"
    /\ Len(Unrecords) >= 2
    /\ ledger # <<>>

\* the operation of the event is one that was arranged to fail in that call
FailingEv(ev) ==
    \/ ev.e = "SetState" /\ ops[ev.m][ev.i].StateErr
    \/ ev.e = "Run" /\ ops[ev.m][ev.i].RunErr

\* C3: when an operation of a migration fails during apply, the call stops
\* there with an error, the transaction is aborted, ledger and database are
\* what they were when that migration started, no row of that migration is in
\* the ledger, and a later apply starts again from that migration.
Thm_C3_FailedMigrationNotRecorded ==
    /\ call.kind = "apply" =>
          \A q \in Pos : FailingEv(calls[q]) =>
              /\ q = Len(calls)
              /\ pc = "done"
              /\ result = "error"
              /\ ~tx.active
              /\ ledger = tx.ledger
              /\ schema = tx.schema
              /\ calls[q].m \notin Range(ledger)
              /\ failedAt = calls[q].m
    /\ failedAt # 0 =>
          /\ failedAt \notin Range(ledger)
          /\ NextUnapplied(ledger, NMig) = failedAt
    /\ (call.kind = "apply" /\ pc = "setstate" /\ calls = <<>>
          /\ failedAt # 0 /\ failedAt <= call.target) => cur = failedAt

\* an apply that recorded a migration and then failed in the second Run of the
\* next one
Wit_C3_RunFailedAfterProgress ==
    /\ call.kind = "apply"
    /\ pc = "done"
    /\ result = "error"
    /\ calls # <<>>
    /\ Last(calls).e = "Run"
    /\ Last(calls).i = NOps
    /\ FailingEv(Last(calls))
    /\ Len(Records) >= 1

\* C4: an apply whose target is already applied, and a rollback whose target
\* is at or above the last applied migration (or on an empty ledger), call no
\* operation, change neither ledger nor database and return no error.
Thm_C4_Idempotent ==
    (/\ pc = "done"
     /\ \/ call.kind = "apply" /\ call.target <= LastApplied(atCall.ledger)
        \/ call.kind = "rollback" /\ call.target >= LastApplied(atCall.ledger))
    => /\ calls = <<>>
       /\ result = "ok"
       /\ ledger = atCall.ledger
       /\ schema = atCall.schema

\* a second apply of an applied target has returned
Wit_C4_SecondApply ==
    /\ pc = "done"
    /\ call.kind = "apply"
    /\ call.target >= 2
    /\ LastApplied(atCall.ledger) = call.target
    /\ calls = <<>>

-----------------------------------------------------------------------------
(* Conditions and engine calls: the specification *)

Leaves == {QActive, QTwo, QBad, QEmpty}

\* what a builder is handed: a Q, or a chain made of two
BuilderArgs ==
    {QCond(QEmail), QCond(QBad), Or(QCond(QEmail), QCond(QPk))}

Containers ==
    {[email |-> 7], [email |-> 7, active |-> 8],
     [id |-> 9, email |-> Nil, active |-> 8]}

FieldLists == {<<>>, <<"active">>, <<"id", "email">>}

Ranges == {<<0, 0>>, <<10, 20>>, <<10, -1>>}

Dialects == {"postgres", "sqlite3"}

\* Q{...}: a new condition
NewQ(q) ==
    /\ cond' = QCond(q)
    /\ built' = <<[op |-> "Q", arg |-> QCond(q)]>>
    /\ compiled' = <<>>
    /\ queries' = <<>>
    /\ lastCall' = NoEngineCall
    /\ UNCHANGED <<migVars, diffVars, replayVars, engVars, restVars>>

\* none of the engine's calls has used the condition yet
Unused == compiled = <<>> /\ lastCall.fn = "none"

Chained(op, arg) ==
    /\ cond.kind # "nil"
    /\ Unused
    /\ Len(built) <= MaxLinks
    /\ cond' = Build(op, cond, arg)
    /\ built' = Append(built, [op |-> op, arg |-> arg])
    /\ compiled' = <<>>
    /\ queries' = <<>>
    /\ lastCall' = NoEngineCall
    /\ UNCHANGED <<migVars, diffVars, replayVars, engVars, restVars>>

CallAnd(arg) == Chained("And", arg)

CallAndNot(arg) == Chained("AndNot", arg)

CallOr(arg) == Chained("Or", arg)

CallOrNot(arg) == Chained("OrNot", arg)

\* the condition is compiled, a first and a second time
DoCompile(dialect) ==
    /\ cond.kind # "nil"
    /\ lastCall.fn = "none"
    /\ Len(compiled) < 2
    /\ \E r \in PredicateSet(UserModel, cond, dialect, 1) :
          compiled' = Append(compiled, [dialect |-> dialect, start |-> 1,
                                        stmt |-> r.stmt, args |-> r.args,
                                        err |-> r.err])
    /\ queries' = <<>>
    /\ lastCall' = NoEngineCall
    /\ UNCHANGED <<cond, built>>
    /\ UNCHANGED <<migVars, diffVars, replayVars, engVars, restVars>>

\* an engine call on a reset dbMocker: queries holds what this call sent
EngineCall(fn, cont, fields, outcomes) ==
    /\ Unused
    /\ \E o \in outcomes :
          /\ queries' = o.sent
          /\ lastCall' = [fn |-> fn, cont |-> cont, fields |-> fields,
                          err |-> o.err]
    /\ compiled' = <<>>
    /\ UNCHANGED <<cond, built>>
    /\ UNCHANGED <<migVars, diffVars, replayVars, engVars, restVars>>

DoPgUpdateRows(cont, fields) ==
    EngineCall("PgUpdateRows", cont, fields,
               {Sent(q) : q \in PgUpdateRows(UserModel, cont, cond, fields)})

DoQsUpdate(cont) ==
    EngineCall("QsUpdate", cont, <<>>,
               {Sent(q) : q \in QsUpdate(UserModel, cont, cond)})

DoQsDelete ==
    EngineCall("QsDelete", <<>>, <<>>,
               {Sent(q) : q \in QsDelete(UserModel, cond)})

DoGetRows(fields, range) ==
    EngineCall("GetRows", <<>>, fields,
               SqGetRows(UserModel,
                         QueryOptions(cond, fields, range[1], range[2])))

DoCountRows ==
    EngineCall("CountRows", <<>>, <<>>,
               SqCountRows(UserModel, QueryOptions(cond, <<>>, 0, 0)))

DoExists ==
    EngineCall("Exists", <<>>, <<>>,
               SqExists(UserModel, QueryOptions(cond, <<>>, 0, 0)))

InitCond == MigInit /\ CondIdle /\ DiffIdle /\ ReplayIdle /\ EngineIdle /\ RestIdle

NextCond ==
    \/ \E q \in Leaves : NewQ(q)
    \/ \E a \in BuilderArgs : CallAnd(a)
    \/ \E a \in BuilderArgs : CallAndNot(a)
    \/ \E a \in BuilderArgs : CallOr(a)
    \/ \E a \in BuilderArgs : CallOrNot(a)
    \/ \E d \in Dialects : DoCompile(d)
    \/ \E c \in Containers, f \in FieldLists : DoPgUpdateRows(c, f)
    \/ \E c \in Containers : DoQsUpdate(c)
    \/ DoQsDelete
    \/ \E f \in FieldLists \ {<<>>}, r \in Ranges : DoGetRows(f, r)
    \/ DoCountRows
    \/ DoExists

SpecCond == InitCond /\ [][NextCond]_vars

-----------------------------------------------------------------------------
(* Claims about conditions, the compiler and the engine calls *)

IsOr(op) == op \in {"Or", "OrNot"}

IsNot(op) == op \in {"AndNot", "OrNot"}

\* what the chain rule gives for the builder calls b: the first leaf compiled,
\* then one link per further call
RECURSIVE ExpectedSet(_, _, _)
ExpectedSet(b, dialect, start) ==
    IF Len(b) = 1 THEN PredicateSet(UserModel, b[1].arg, dialect, start)
    ELSE LET lk == b[Len(b)]
         IN  UNION {{Link(l, IsOr(lk.op), IsNot(lk.op), r) :
                        r \in PredicateSet(UserModel, lk.arg, dialect,
                                           start + Len(l.args))} :
                    l \in ExpectedSet(SubSeq(b, 1, Len(b) - 1), dialect, start)}

\* C5: every further link wraps the compiled left side in a new group, puts
\* the right side in its own group, joins them with the link's combinator and
\* prefixes the right group with NOT iff the link is negated: what compiling
\* the built condition returns is what this rule gives for the builder calls.
Cex_C5_ChainCompilation ==
    \A i \in 1..Len(compiled) :
        built[1].arg.q # QEmpty =>
        [stmt |-> compiled[i].stmt, args |-> compiled[i].args,
         err |-> compiled[i].err]
            \in ExpectedSet(built, compiled[i].dialect, compiled[i].start)

\* the conditions handed to the builder calls b, in order
RECURSIVE BuiltLeaves(_)
BuiltLeaves(b) ==
    IF b = <<>> THEN <<>> ELSE LeafSeq(Head(b).arg) \o BuiltLeaves(Tail(b))

\* C6: a builder call on a chain keeps every condition the chain held and
\* adds the new link after them: the tree holds, in order, all the conditions
\* of all the builder calls.
Cex_C6_NoLinkDropped ==
    cond.kind # "nil" => LeafSeq(cond) = BuiltLeaves(built)

CondToks(stmt) == SelectSeq(stmt, LAMBDA t : t.t = "cond")

\* the SET columns of the last update call
SetCount ==
    IF lastCall.fn = "PgUpdateRows"
    THEN Cardinality({n \in {"id", "email", "active"} :
                        /\ n # "id"
                        /\ (lastCall.fields = <<>> \/ n \in Range(lastCall.fields))
                        /\ n \in DOMAIN lastCall.cont
                        /\ lastCall.cont[n] # Nil})
    ELSE Cardinality(DOMAIN lastCall.cont \cap {"id", "email", "active"})

\* C7: a Postgres UPDATE with k SET columns and a condition of p field
\* conditions holds exactly the placeholders $1..$(k+p), once each and
\* increasing in textual order, the WHERE clause starting at k+1, and its
\* argument list has k+p entries, the i-th the value placeholder $i stands for.
Thm_C7_PlaceholderNumbering ==
    lastCall.fn \in {"PgUpdateRows", "QsUpdate"} =>
        /\ Len(queries) = 1
        /\ LET q == queries[1]
               toks == CondToks(q.stmt)
               k == SetCount
               p == NumConds(cond)
               where == {w \in 1..Len(q.stmt) : q.stmt[w] = Tok("WHERE")}
           IN  /\ Len(toks) = k + p
               /\ \A j \in 1..Len(toks) : toks[j].ph = j
               /\ Len(q.args) = k + p
               /\ \A j \in 1..Len(toks) : q.args[j] = toks[j].v
               /\ Cardinality(where) = IF cond.kind = "nil" THEN 0 ELSE 1
               /\ \A w \in where :
                     /\ Len(CondToks(SubSeq(q.stmt, 1, w))) = k
                     /\ \A j \in (w + 1)..Len(q.stmt) :
                           q.stmt[j].t = "cond" => q.stmt[j].ph > k

\* an UPDATE of two columns under a condition of three field conditions
Wit_C7_TwoColumnsThreeConditions ==
    /\ lastCall.fn = "PgUpdateRows"
    /\ SetCount = 2
    /\ NumConds(cond) >= 3
    /\ Len(queries) = 1

\* C29: GenericQuerySet.Delete with a condition hands the driver one
\* argument per placeholder of the WHERE predicate, the i-th the value of the
\* i-th placeholder.
Cex_C29_DeleteArguments ==
    (lastCall.fn = "QsDelete" /\ cond.kind # "nil") =>
        /\ Len(queries) = 1
        /\ LET q == queries[1]
               toks == CondToks(q.stmt)
           IN  /\ Len(toks) = NumConds(cond)
               /\ \A j \in 1..Len(toks) : toks[j].ph = j
               /\ \A j \in 1..Len(q.args) :
                     ~q.args[j].slice /\ q.args[j].v = toks[j].v
               /\ Len(q.args) = Len(toks)

\* a condition of the tree names a field the model does not have
UnknownField(c) ==
    \E i \in 1..Len(LeafSeq(c)) : \E key \in DOMAIN LeafSeq(c)[i] :
        key[1] \notin {"id", "email", "active", "pk"}

\* C8: with a condition that names a field the model does not have, GetRows,
\* CountRows and Exists return an error, and GetRows hands no statement to
\* the database.
Thm_C8_UnknownFieldFails ==
    (lastCall.fn \in {"GetRows", "CountRows", "Exists"} /\ UnknownField(cond))
    => /\ lastCall.err
       /\ lastCall.fn = "GetRows" => queries = <<>>

\* GetRows was called with a chain whose second condition names an unknown field
Wit_C8_GetRowsUnknownInChain ==
    /\ lastCall.fn = "GetRows"
    /\ Len(LeafSeq(cond)) >= 2
    /\ ~UnknownField(QCond(LeafSeq(cond)[1]))
    /\ UnknownField(cond)

-----------------------------------------------------------------------------
(* Models and the diff engine *)

PkField == [PrimaryKey |-> TRUE]

PlainField == [PrimaryKey |-> FALSE]

\* gomodels.New for the model User of the application main
NewModel(fields, table, indexes) ==
    [name |-> "User", app |-> "main", pk |-> "id", fields |-> fields,
     table |-> table, indexes |-> indexes]

\* Model.Table: the table of the options, or <app>_<model> in lower case
Table(m) == IF m.table = "" THEN "main_user" ELSE m.table

\* a Fields that hands out the model's own map
Fields_Shared(m) == [owner |-> "model", map |-> m.fields]

\* Model.Fields: a new map holding the model's entries
Fields(m) == [owner |-> "copy", map |-> m.fields]

\* Model.Indexes: a new map holding copies of the model's slices
Indexes(m) == [owner |-> "copy", map |-> m.indexes]

\* Model.AddField: the error it returns, "" for none
AddFieldErr(m, name, field) ==
    IF name \in DOMAIN m.fields THEN "duplicate field"
    ELSE IF field.PrimaryKey /\ m.pk # "" THEN "duplicate pk"
    ELSE ""

\* a RemoveField that does not look at the indexes
RemoveFieldErr_AnyField(m, name) ==
    IF m.pk = name THEN "pk field cannot be removed"
    ELSE IF name \notin DOMAIN m.fields THEN "field not found"
    ELSE ""

\* Model.RemoveField: the error it returns, "" for none
RemoveFieldErr(m, name) ==
    IF m.pk = name THEN "pk field cannot be removed"
    ELSE IF name \notin DOMAIN m.fields THEN "field not found"
    ELSE IF \E i \in DOMAIN m.indexes : name \in Range(m.indexes[i])
         THEN "cannot remove indexed field"
    ELSE ""

\* Model.AddIndex: the error it returns, "" for none
AddIndexErr(m, name, fields) ==
    IF name \in DOMAIN m.indexes THEN "duplicate index"
    ELSE IF fields = <<>> THEN "cannot add index with no fields"
    ELSE IF \E f \in Range(fields) : f \notin DOMAIN m.fields
         THEN "unknown indexed field"
    ELSE ""

\* Model.RemoveIndex: the error it returns, "" for none
RemoveIndexErr(m, name) ==
    IF name \notin DOMAIN m.indexes THEN "index not found" ELSE ""

\* the function f without the key k
Without(f, k) == [x \in DOMAIN f \ {k} |-> f[x]]

\* getModelChanges: the indexes of the state that the model no longer declares
RemovedIndexes(model, modelState) ==
    {i \in DOMAIN Indexes(modelState).map : i \notin DOMAIN Indexes(model).map}

\* getModelChanges: the fields of the state that the model no longer declares
RemovedFields(model, modelState) ==
    {n \in DOMAIN Fields(modelState).map : n \notin DOMAIN Fields(model).map}

\* a comparison that never finds a field in the state
NewFields_All(model, modelState) == DOMAIN Fields(model).map

\* getModelChanges: the declared fields that the state does not hold
NewFields(model, modelState) ==
    {n \in DOMAIN Fields(model).map : n \notin DOMAIN Fields(modelState).map}

\* a comparison that never finds an index in the state
NewIndexes_All(model, modelState) == DOMAIN Indexes(model).map

\* getModelChanges: the declared indexes that the state does not hold
NewIndexes(model, modelState) ==
    {i \in DOMAIN Indexes(model).map : i \notin DOMAIN Indexes(modelState).map}

CreateModelOp(model) ==
    [op |-> "CreateModel", Name |-> model.name, Fields |-> Fields(model),
     Table |-> IF Table(model) # "mainUser" THEN Table(model) ELSE ""]

AddIndexOp(model, name) ==
    [op |-> "AddIndex", Model |-> model.name, Name |-> name,
     Fields |-> [owner |-> Indexes(model).owner,
                 list |-> Indexes(model).map[name]]]

RemoveIndexOp(model, name) ==
    [op |-> "RemoveIndex", Model |-> model.name, Name |-> name]

RemoveFieldsOp(model, names) ==
    [op |-> "RemoveFields", Model |-> model.name, Fields |-> names]

AddFieldsOp(model, names) ==
    [op |-> "AddFields", Model |-> model.name,
     Fields |-> [owner |-> "copy",
                 map |-> [n \in names |-> Fields(model).map[n]]]]

\* getModelChanges: the operation lists it may return, one per order in which
\* the maps of indexes and fields are ranged over
getModelChanges(model, state) ==
    IF model.name \notin DOMAIN state
    THEN {<<CreateModelOp(model)>>
          \o [i \in 1..Len(ord) |-> AddIndexOp(model, ord[i])] :
             ord \in Perms(DOMAIN Indexes(model).map)}
    ELSE LET modelState == state[model.name]
             removed == RemovedFields(model, modelState)
             new == NewFields(model, modelState)
         IN  {[i \in 1..Len(ri) |-> RemoveIndexOp(model, ri[i])]
              \o (IF rf # <<>> THEN <<RemoveFieldsOp(model, rf)>> ELSE <<>>)
              \o (IF new # {} THEN <<AddFieldsOp(model, new)>> ELSE <<>>)
              \o [i \in 1..Len(ai) |-> AddIndexOp(model, ai[i])] :
                 ri \in Perms(RemovedIndexes(model, modelState)),
                 rf \in Perms(removed),
                 ai \in Perms(NewIndexes(model, modelState))}

-----------------------------------------------------------------------------
(* The diff engine's specification *)

FieldNames == {"id", "email", "active"}

\* the index names and the fields each of them covers
IndexPool == [email_idx |-> <<"email">>, id_active_idx |-> <<"id", "active">>]

Tables == {"", "mainUser"}

FieldsOver(names) ==
    [n \in names |-> IF n = "id" THEN PkField ELSE PlainField]

IndexesOver(names) == [i \in names |-> IndexPool[i]]

\* the well-formed models: the pk is a field, every index covers fields
Models ==
    {m \in {NewModel(FieldsOver(fs), t, IndexesOver(is)) :
                fs \in {x \in SUBSET FieldNames : "id" \in x},
                t \in Tables,
                is \in SUBSET DOMAIN IndexPool} :
        \A i \in DOMAIN m.indexes : Range(m.indexes[i]) \subseteq DOMAIN m.fields}

\* the prior states: no model, or a snapshot taken of the model earlier
States == {<<>>} \cup {("User" :> m) : m \in Models}

InitDiff ==
    /\ MigInit
    /\ CondIdle
    /\ ReplayIdle
    /\ EngineIdle
    /\ RestIdle
    /\ declared \in Models
    /\ history \in States
    /\ operations = <<>>
    /\ diffed = <<>>
    /\ modelErr = ""

\* a call on the declared model: its error, and the model it leaves
ModelCall(err, after) ==
    /\ modelErr' = err
    /\ declared' = IF err = "" THEN after ELSE declared
    /\ UNCHANGED <<history, operations, diffed>>
    /\ UNCHANGED <<migVars, condVars, replayVars, engVars, restVars>>

AddField(name, field) ==
    ModelCall(AddFieldErr(declared, name, field),
              [declared EXCEPT !.fields = (name :> field) @@ declared.fields])

RemoveField(name) ==
    ModelCall(RemoveFieldErr(declared, name),
              [declared EXCEPT !.fields = Without(declared.fields, name)])

AddIndex(name, fields) ==
    ModelCall(AddIndexErr(declared, name, fields),
              [declared EXCEPT !.indexes = (name :> fields) @@ declared.indexes])

RemoveIndex(name) ==
    ModelCall(RemoveIndexErr(declared, name),
              [declared EXCEPT !.indexes = Without(declared.indexes, name)])

\* getModelChanges(model) against history[app]
Diff ==
    /\ \E ops_ \in getModelChanges(declared, history) :
          /\ operations' = ops_
          /\ diffed' = [model |-> declared, state |-> history,
                        operations |-> ops_]
    /\ UNCHANGED <<declared, history, modelErr>>
    /\ UNCHANGED <<migVars, condVars, replayVars, engVars, restVars>>

\* the caller deletes an entry of the map that operation i holds; the map of
\* the model loses it too when the two are one map
DeleteEntry(i, name) ==
    /\ i \in DOMAIN operations
    /\ operations[i].op \in {"CreateModel", "AddFields"}
    /\ name \in DOMAIN operations[i].Fields.map
    /\ LET held == operations[i].Fields
           after == Without(held.map, name)
       IN  /\ operations' = [operations EXCEPT ![i].Fields.map = after]
           /\ declared' = IF held.owner = "model"
                           THEN [declared EXCEPT !.fields = after]
                           ELSE declared
    /\ UNCHANGED <<history, diffed, modelErr>>
    /\ UNCHANGED <<migVars, condVars, replayVars, engVars, restVars>>

\* the caller overwrites the first element of the slice that operation i
\* holds; the slice of the model changes too when the two are one slice
WriteElement(i, name) ==
    /\ i \in DOMAIN operations
    /\ operations[i].op = "AddIndex"
    /\ operations[i].Fields.list[1] # name
    /\ LET held == operations[i].Fields
           after == [held.list EXCEPT ![1] = name]
       IN  /\ operations' = [operations EXCEPT ![i].Fields.list = after]
           /\ declared' = IF held.owner = "model"
                           THEN [declared EXCEPT !.indexes[operations[i].Name] = after]
                           ELSE declared
    /\ UNCHANGED <<history, diffed, modelErr>>
    /\ UNCHANGED <<migVars, condVars, replayVars, engVars, restVars>>

NextDiff ==
    \/ \E n \in FieldNames, f \in {PkField, PlainField} : AddField(n, f)
    \/ \E n \in FieldNames : RemoveField(n)
    \/ \E i \in DOMAIN IndexPool : AddIndex(i, IndexPool[i])
    \/ \E i \in DOMAIN IndexPool : RemoveIndex(i)
    \/ Diff
    \/ \E i \in DOMAIN operations, n \in FieldNames : DeleteEntry(i, n)
    \/ \E i \in DOMAIN operations, n \in FieldNames : WriteElement(i, n)

SpecDiff == InitDiff /\ [][NextDiff]_vars

-----------------------------------------------------------------------------
(* Calls on a registered model: the specification *)

\* Model.Register without the application's bookkeeping: SetupPrimaryKey, then
\* the checks of SetupIndexes; m.pk is "" before. The fields of the model
\* carry no index flag, so SetupIndexes adds no index of its own
Register(m) ==
    LET pks == {n \in DOMAIN m.fields : m.fields[n].PrimaryKey}
        withPk == IF pks = {}
                  THEN [m EXCEPT !.fields = ("id" :> PkField) @@ m.fields,
                                 !.pk = "id"]
                  ELSE [m EXCEPT !.pk = CHOOSE n \in pks : TRUE]
    IN  IF Cardinality(pks) > 1 THEN [err |-> "duplicate pk", model |-> m]
        ELSE IF \E i \in DOMAIN m.indexes : m.indexes[i] = <<>>
             THEN [err |-> "index with no fields", model |-> withPk]
        ELSE IF \E i \in DOMAIN m.indexes :
                    \E f \in Range(m.indexes[i]) : f \notin DOMAIN withPk.fields
             THEN [err |-> "unknown indexed field", model |-> withPk]
        ELSE [err |-> "", model |-> withPk]

\* the names the calls are made with; "name" is in no model at the start
CallNames == FieldNames \cup {"name"}

\* the index names and the field lists the calls are made with
CallIndexes == DOMAIN IndexPool \cup {"name_idx"}

CallLists == {<<>>, <<"email">>, <<"name">>, <<"id", "active">>}

\* the models handed to Register: any fields, any of them primary keys
Declarations ==
    {[name |-> "User", app |-> "main", pk |-> "", fields |-> fs,
      table |-> "", indexes |-> IndexesOver(is)] :
        fs \in UNION {[ns -> {PkField, PlainField}] : ns \in SUBSET FieldNames},
        is \in SUBSET DOMAIN IndexPool}

InitModel ==
    /\ MigInit
    /\ CondIdle
    /\ ReplayIdle
    /\ EngineIdle
    /\ RestIdle
    /\ declared \in {Register(m).model : m \in {d \in Declarations : Register(d).err = ""}}
    /\ history = <<>>
    /\ operations = <<>>
    /\ diffed = <<>>
    /\ modelErr = ""

NextModel ==
    \/ \E n \in CallNames, f \in {PkField, PlainField} : AddField(n, f)
    \/ \E n \in CallNames : RemoveField(n)
    \/ \E i \in CallIndexes, fs \in CallLists : AddIndex(i, fs)
    \/ \E i \in CallIndexes : RemoveIndex(i)

SpecModel == InitModel /\ [][NextModel]_vars

-----------------------------------------------------------------------------
(* Claims about the calls on a registered model *)

\* the fields of m that are primary keys
PkFields(m) == {n \in DOMAIN m.fields : m.fields[n].PrimaryKey}

\* C30: on a registered model every sequence of AddField, RemoveField,
\* AddIndex and RemoveIndex calls keeps the model well-formed: the primary-key
\* field is present and is the only primary-key field, every index is
\* non-empty and names only fields of the model (the index names are the keys
\* of a map, so they are unique), and a call that returns an error leaves the
\* fields and the indexes as they were.
Thm_C30_CallsKeepModelWellFormed ==
    /\ [](/\ declared.pk \in DOMAIN declared.fields
          /\ PkFields(declared) = {declared.pk}
          /\ \A i \in DOMAIN declared.indexes :
                /\ declared.indexes[i] # <<>>
                /\ Range(declared.indexes[i]) \subseteq DOMAIN declared.fields)
    /\ [][modelErr' # "" =>
            /\ declared'.fields = declared.fields
            /\ declared'.indexes = declared.indexes]_vars

\* a field and an index over it were added, and removing the field failed
Wit_C30_AddedFieldIndexedKept ==
    /\ modelErr = "cannot remove indexed field"
    /\ "name" \in DOMAIN declared.fields
    /\ "name_idx" \in DOMAIN declared.indexes
    /\ declared.indexes["name_idx"] = <<"name">>
    /\ declared.pk = "email"

-----------------------------------------------------------------------------
(* Claims about the diff engine *)

\* C10: when the prior state holds a snapshot of the model with the same field
\* names and the same index names, getModelChanges returns no operation.
Thm_C10_UnchangedModelEmptyDiff ==
    (/\ diffed # <<>>
     /\ diffed.model.name \in DOMAIN diffed.state
     /\ DOMAIN diffed.state[diffed.model.name].fields = DOMAIN diffed.model.fields
     /\ DOMAIN diffed.state[diffed.model.name].indexes
            = DOMAIN diffed.model.indexes)
    => operations = <<>>

\* a model with two indexes was diffed against a state that holds it unchanged
Wit_C10_UnchangedDiffed ==
    /\ diffed # <<>>
    /\ diffed.state = ("User" :> diffed.model)
    /\ Cardinality(DOMAIN diffed.model.indexes) = 2
    /\ operations = <<>>

\* the positions of a list of operations that hold an operation of a kind
OpsAt(list, kind) == {i \in DOMAIN list : list[i].op = kind}

\* the alphabetical rank of the index names
NameRank == [email_idx |-> 1, id_active_idx |-> 2]

\* C11: for a model absent from the prior state the diff is one CreateModel
\* with all declared fields, then one AddIndex per declared index, the
\* AddIndex operations sorted by index name.
Cex_C11_CreateThenSortedAddIndex ==
    (diffed # <<>> /\ diffed.model.name \notin DOMAIN diffed.state) =>
        LET list == diffed.operations
            m == diffed.model
        IN  /\ Len(list) = 1 + Cardinality(DOMAIN m.indexes)
            /\ list[1].op = "CreateModel"
            /\ list[1].Fields.map = m.fields
            /\ OpsAt(list, "AddIndex") = 2..Len(list)
            /\ {list[i].Name : i \in 2..Len(list)} = DOMAIN m.indexes
            /\ \A i \in 2..Len(list) : list[i].Fields.list = m.indexes[list[i].Name]
            /\ \A i, j \in 2..Len(list) :
                  i < j => NameRank[list[i].Name] < NameRank[list[j].Name]

\* C12: for a model present in the prior state the diff holds at most one
\* RemoveFields naming exactly the fields only in the state, at most one
\* AddFields holding exactly the fields only declared, one RemoveIndex per
\* index only in the state, one AddIndex per index only declared, and
\* RemoveFields and AddFields stand before every AddIndex.
Thm_C12_PresentModelDiff ==
    (diffed # <<>> /\ diffed.model.name \in DOMAIN diffed.state) =>
        LET list == diffed.operations
            m == diffed.model
            ms == diffed.state[m.name]
            gone == DOMAIN ms.fields \ DOMAIN m.fields
            new == DOMAIN m.fields \ DOMAIN ms.fields
            goneIdx == DOMAIN ms.indexes \ DOMAIN m.indexes
            newIdx == DOMAIN m.indexes \ DOMAIN ms.indexes
        IN  /\ \A i \in DOMAIN list :
                  list[i].op \in {"RemoveIndex", "RemoveFields", "AddFields", "AddIndex"}
            /\ Cardinality(OpsAt(list, "RemoveFields")) = IF gone = {} THEN 0 ELSE 1
            /\ \A i \in OpsAt(list, "RemoveFields") :
                  /\ Range(list[i].Fields) = gone
                  /\ Len(list[i].Fields) = Cardinality(gone)
            /\ Cardinality(OpsAt(list, "AddFields")) = IF new = {} THEN 0 ELSE 1
            /\ \A i \in OpsAt(list, "AddFields") :
                  list[i].Fields.map = [n \in new |-> m.fields[n]]
            /\ Cardinality(OpsAt(list, "RemoveIndex")) = Cardinality(goneIdx)
            /\ {list[i].Name : i \in OpsAt(list, "RemoveIndex")} = goneIdx
            /\ Cardinality(OpsAt(list, "AddIndex")) = Cardinality(newIdx)
            /\ {list[i].Name : i \in OpsAt(list, "AddIndex")} = newIdx
            /\ \A i \in OpsAt(list, "AddIndex") :
                  list[i].Fields.list = m.indexes[list[i].Name]
            /\ \A i \in OpsAt(list, "RemoveFields") \cup OpsAt(list, "AddFields"),
                  j \in OpsAt(list, "AddIndex") : i < j

\* a diff that holds one operation of each of the four kinds
Wit_C12_AllFourKinds ==
    /\ diffed # <<>>
    /\ diffed.model.name \in DOMAIN diffed.state
    /\ \A k \in {"RemoveIndex", "RemoveFields", "AddFields", "AddIndex"} :
          OpsAt(diffed.operations, k) # {}

\* C13: getModelChanges changes neither the prior state nor the declared
\* model, and a later write to a map or slice held by a returned operation
\* does not reach them either.
Thm_C13_DiffHasNoSideEffects ==
    [][(\/ Diff
        \/ \E i \in DOMAIN operations, n \in FieldNames : DeleteEntry(i, n)
        \/ \E i \in DOMAIN operations, n \in FieldNames : WriteElement(i, n))
       => (declared' = declared /\ history' = history)]_vars

\* the caller has emptied the map of the CreateModel it got for the model
Wit_C13_ReturnedMapWritten ==
    /\ diffed # <<>>
    /\ declared = diffed.model
    /\ Len(operations) > 0
    /\ operations[1].op = "CreateModel"
    /\ operations[1].Fields.map = <<>>
    /\ declared.fields # <<>>

-----------------------------------------------------------------------------
(* Operations: SetState *)

NoOptions == [Table |-> "", Indexes |-> <<>>]

\* a New that keeps the name and the fields only
New_NoOptions(name, fields, options) ==
    [name |-> name, app |-> "", pk |-> "", fields |-> fields,
     table |-> "", indexes |-> <<>>]

\* gomodels.New: a model that is not registered, its app and pk not set
New(name, fields, options) ==
    [name |-> name, app |-> "", pk |-> "", fields |-> fields,
     table |-> options.Table, indexes |-> options.Indexes]

\* what a SetState call returns and the models it leaves in the state
Returned(err, after) == [err |-> err, models |-> after]

\* CreateModel.SetState
CreateModel_SetState(op, st) ==
    IF op.Name \in DOMAIN st
    THEN Returned("duplicate model", st)
    ELSE Returned("", (op.Name :> New(op.Name, op.Fields.map, NoOptions)) @@ st)

\* DeleteModel.SetState
DeleteModel_SetState(op, st) ==
    IF op.Model \notin DOMAIN st
    THEN Returned("delete model not found", st)
    ELSE Returned("", Without(st, op.Model))

\* AddFields.SetState
AddFields_SetState(op, st) ==
    IF op.Model \notin DOMAIN st
    THEN Returned("model not found", st)
    ELSE LET model == st[op.Model]
             fields == Fields(model).map
         IN  IF \E name \in DOMAIN op.Fields.map : name \in DOMAIN fields
             THEN Returned("duplicate field", st)
             ELSE Returned("",
                     [st EXCEPT ![op.Model] =
                         New(op.Model, op.Fields.map @@ fields,
                             [Table |-> Table(model),
                              Indexes |-> Indexes(model).map])])

\* a loop that skips the names it does not find
NotFound_Skipped(names, fields) == {}

\* the names of a RemoveFields that the loop does not find: those not in the
\* model and those an earlier round of the loop has deleted
NotFound(names, fields) ==
    {i \in DOMAIN names :
        \/ names[i] \notin DOMAIN fields
        \/ \E j \in 1..(i - 1) : names[j] = names[i]}

\* a RemoveFields.SetState that deletes from the fields of the state's model
RemoveFields_SetState_InPlace(op, st) ==
    IF op.Model \notin DOMAIN st
    THEN Returned("model not found", st)
    ELSE LET fields == st[op.Model].fields
             bad == NotFound(op.Fields, fields)
             upto == IF bad = {} THEN Len(op.Fields)
                     ELSE (CHOOSE i \in bad : \A j \in bad : i <= j) - 1
             left == [n \in DOMAIN fields \ {op.Fields[i] : i \in 1..upto}
                        |-> fields[n]]
         IN  Returned(IF bad = {} THEN "" ELSE "field not found",
                      [st EXCEPT ![op.Model].fields = left])

\* RemoveFields.SetState
RemoveFields_SetState(op, st) ==
    IF op.Model \notin DOMAIN st
    THEN Returned("model not found", st)
    ELSE LET model == st[op.Model]
             fields == Fields(model).map
         IN  IF NotFound(op.Fields, fields) # {}
             THEN Returned("field not found", st)
             ELSE Returned("",
                     [st EXCEPT ![op.Model] =
                         New(op.Model,
                             [n \in DOMAIN fields \ Range(op.Fields) |-> fields[n]],
                             [Table |-> Table(model),
                              Indexes |-> Indexes(st[op.Model]).map])])

\* AddIndex.SetState: adds the index to the snapshot of the model
AddIndex_SetState(op, st) ==
    IF op.Model \notin DOMAIN st
    THEN Returned("model not found", st)
    ELSE IF AddIndexErr(st[op.Model], op.Name, op.Fields.list) # ""
    THEN Returned(AddIndexErr(st[op.Model], op.Name, op.Fields.list), st)
    ELSE Returned("",
            [st EXCEPT ![op.Model].indexes = (op.Name :> op.Fields.list) @@ @])

\* RemoveIndex.SetState: removes the index from the snapshot of the model
RemoveIndex_SetState(op, st) ==
    IF op.Model \notin DOMAIN st
    THEN Returned("model not found", st)
    ELSE IF RemoveIndexErr(st[op.Model], op.Name) # ""
    THEN Returned(RemoveIndexErr(st[op.Model], op.Name), st)
    ELSE Returned("", [st EXCEPT ![op.Model].indexes = Without(@, op.Name)])

\* Operation.SetState, by the operation's type
SetState(op, st) ==
    CASE op.op = "CreateModel"  -> CreateModel_SetState(op, st)
      [] op.op = "DeleteModel"  -> DeleteModel_SetState(op, st)
      [] op.op = "AddFields"    -> AddFields_SetState(op, st)
      [] op.op = "RemoveFields" -> RemoveFields_SetState(op, st)
      [] op.op = "AddIndex"     -> AddIndex_SetState(op, st)
      [] op.op = "RemoveIndex"  -> RemoveIndex_SetState(op, st)

-----------------------------------------------------------------------------
(* Operations: Run and Backwards *)

\* tx.AddColumns(model, fields)
TxAddColumns(model, fields) ==
    [fn |-> "AddColumns", models |-> <<model>>, fields |-> fields]

\* tx.DropColumns(old, new, fields...)
TxDropColumns(old, new, fields) ==
    [fn |-> "DropColumns", models |-> <<old, new>>, fields |-> fields]

\* AddFields.Run
AddFields_Run(op, st, prevState) ==
    {TxAddColumns(st[op.Model], op.Fields.map)}

\* AddFields.Backwards: the names are collected in a range over op.Fields
AddFields_Backwards(op, st, prevState) ==
    {TxDropColumns(st[op.Model], prevState[op.Model], fields) :
        fields \in Perms(DOMAIN op.Fields.map)}

\* RemoveFields.Run
RemoveFields_Run(op, st, prevState) ==
    {TxDropColumns(prevState[op.Model], st[op.Model], op.Fields)}

\* RemoveFields.Backwards
RemoveFields_Backwards(op, st, prevState) ==
    LET fields == Fields(prevState[op.Model]).map
    IN  {TxAddColumns(st[op.Model],
                      [name \in Range(op.Fields) |-> fields[name]])}

-----------------------------------------------------------------------------
(* The state replay's specification *)

MaxApplied == 3

\* the snapshot that replay leaves for a model
SnapshotOf(m) ==
    New(m.name, m.fields, [Table |-> Table(m), Indexes |-> m.indexes])

\* a second model of the application
GroupSnapshot ==
    "Group" :> New("Group", FieldsOver({"id"}),
                   [Table |-> "main_group", Indexes |-> <<>>])

\* the states replay starts from: no model, a snapshot of a well-formed one,
\* or that and a second model next to one with a table name and an index
Snapshots ==
    {<<>>}
    \cup {("User" :> SnapshotOf(m)) : m \in Models}
    \cup {("User" :> SnapshotOf(m)) @@ GroupSnapshot :
            m \in {x \in Models : x.table # "" /\ x.indexes # <<>>}}

DeleteModelOp(name) == [op |-> "DeleteModel", Model |-> name]

\* the operations of a migration file
OpPool ==
    {[op |-> "CreateModel", Name |-> "User", Table |-> "",
      Fields |-> [owner |-> "copy", map |-> FieldsOver(fs)]] :
        fs \in {{"id"}, {"id", "email"}}}
    \cup {DeleteModelOp("User")}
    \cup {[op |-> "AddFields", Model |-> "User",
           Fields |-> [owner |-> "copy", map |-> f]] :
             f \in {FieldsOver({"email"}), FieldsOver({"email", "active"}),
                    ("active" :> PkField)}}
    \cup {[op |-> "RemoveFields", Model |-> "User", Fields |-> names] :
             names \in {<<"email">>, <<"id">>, <<"active", "email">>,
                        <<"email", "email">>}}
    \cup {[op |-> "AddIndex", Model |-> "User", Name |-> i,
           Fields |-> [owner |-> "copy", list |-> IndexPool[i]]] :
             i \in DOMAIN IndexPool}
    \cup {[op |-> "RemoveIndex", Model |-> "User", Name |-> i] :
             i \in DOMAIN IndexPool}

InitState ==
    /\ MigInit
    /\ CondIdle
    /\ EngineIdle
    /\ RestIdle
    /\ \/ declared \in Models /\ models = <<>>
       \/ declared = NoModel /\ models \in Snapshots
    /\ history = <<>>
    /\ operations = <<>>
    /\ diffed = <<>>
    /\ modelErr = ""
    /\ applied = <<>>
    /\ ran = <<>>

\* op.SetState(state)
CallSetState(op) ==
    /\ Len(applied) < MaxApplied
    /\ LET r == SetState(op, models)
       IN  /\ models' = r.models
           /\ applied' = Append(applied,
                                [op |-> op, err |-> r.err, before |-> models])
    /\ UNCHANGED ran
    /\ UNCHANGED <<migVars, condVars, diffVars, engVars, restVars>>

\* getModelChanges of a new model
DiffNew ==
    /\ declared # NoModel
    /\ diffed = <<>>
    /\ Diff

\* the next operation of the diff is replayed
Replay ==
    /\ diffed # <<>>
    /\ Len(applied) < Len(operations)
    /\ \A i \in DOMAIN applied : applied[i].err = ""
    /\ CallSetState(operations[Len(applied) + 1])

\* an operation of a migration file is replayed
Load(op) ==
    /\ declared = NoModel
    /\ CallSetState(op)

\* the engine call of a direction of the field operation whose SetState
\* succeeded last: state is the state it left, prevState the one it found
Migrate(by, calls_) ==
    /\ applied # <<>>
    /\ Last(applied).err = ""
    /\ \A i \in DOMAIN ran : ran[i].at # Len(applied)
    /\ \E c \in calls_ :
          ran' = Append(ran, [at |-> Len(applied), by |-> by, call |-> c,
                              op |-> Last(applied).op, state |-> models,
                              prevState |-> Last(applied).before])
    /\ UNCHANGED <<models, applied>>
    /\ UNCHANGED <<migVars, condVars, diffVars, engVars, restVars>>

RunAddFields ==
    /\ applied # <<>> /\ Last(applied).op.op = "AddFields"
    /\ Migrate("AddFields.Run",
               AddFields_Run(Last(applied).op, models, Last(applied).before))

BackwardsAddFields ==
    /\ applied # <<>> /\ Last(applied).op.op = "AddFields"
    /\ Migrate("AddFields.Backwards",
               AddFields_Backwards(Last(applied).op, models, Last(applied).before))

RunRemoveFields ==
    /\ applied # <<>> /\ Last(applied).op.op = "RemoveFields"
    /\ Migrate("RemoveFields.Run",
               RemoveFields_Run(Last(applied).op, models, Last(applied).before))

BackwardsRemoveFields ==
    /\ applied # <<>> /\ Last(applied).op.op = "RemoveFields"
    /\ Migrate("RemoveFields.Backwards",
               RemoveFields_Backwards(Last(applied).op, models, Last(applied).before))

NextState ==
    \/ DiffNew
    \/ Replay
    \/ \E op \in OpPool : Load(op)
    \/ RunAddFields
    \/ BackwardsAddFields
    \/ RunRemoveFields
    \/ BackwardsRemoveFields

SpecState == InitState /\ [][NextState]_vars

-----------------------------------------------------------------------------
(* Claims about state replay *)

\* the fields of a model that are marked as primary key
PrimaryKeys(m) == {n \in DOMAIN m.fields : m.fields[n].PrimaryKey}

\* the diff of a new model has been replayed, in order, on the empty state
ReplayedDiff ==
    /\ diffed # <<>>
    /\ diffed.state = <<>>
    /\ Len(applied) = Len(diffed.operations)
    /\ \A i \in DOMAIN applied : applied[i].op = diffed.operations[i]
    /\ applied[1].before = <<>>

\* C14: replaying the diff of a new model on the empty state succeeds and
\* yields a snapshot with the model's field set, primary key, table name and
\* index set.
Cex_C14_ReplayReproducesModel ==
    ReplayedDiff =>
        /\ \A i \in DOMAIN applied : applied[i].err = ""
        /\ diffed.model.name \in DOMAIN models
        /\ LET m == diffed.model
               snapshot == models[m.name]
           IN  /\ snapshot.fields = m.fields
               /\ PrimaryKeys(snapshot) = PrimaryKeys(m)
               /\ Table(snapshot) = Table(m)
               /\ snapshot.indexes = m.indexes

\* the SetState calls of a kind whose operation names a model that is, or is
\* not, in the state the call was given
CallsOf(kind, present) ==
    {i \in DOMAIN applied :
        /\ applied[i].op.op = kind
        /\ LET name == IF kind = "CreateModel" THEN applied[i].op.Name
                       ELSE applied[i].op.Model
           IN  (name \in DOMAIN applied[i].before) = present}

\* C15: RemoveFields.SetState fails when the model or a named field is
\* missing, AddFields.SetState when the model is missing or a field exists,
\* CreateModel.SetState when the model exists, DeleteModel.SetState when it
\* does not.
Thm_C15_SetStateRejects ==
    /\ \A i \in CallsOf("RemoveFields", FALSE) \cup CallsOf("AddFields", FALSE)
                \cup CallsOf("CreateModel", TRUE) \cup CallsOf("DeleteModel", FALSE) :
          applied[i].err # ""
    /\ \A i \in CallsOf("RemoveFields", TRUE) :
          (\E n \in Range(applied[i].op.Fields) :
              n \notin DOMAIN applied[i].before[applied[i].op.Model].fields)
          => applied[i].err # ""
    /\ \A i \in CallsOf("AddFields", TRUE) :
          (\E n \in DOMAIN applied[i].op.Fields.map :
              n \in DOMAIN applied[i].before[applied[i].op.Model].fields)
          => applied[i].err # ""

\* a RemoveFields naming a field and a field the model does not have has
\* returned an error
Wit_C15_RemoveMissingField ==
    \E i \in CallsOf("RemoveFields", TRUE) :
        /\ applied[i].op.Fields = <<"active", "email">>
        /\ DOMAIN applied[i].before["User"].fields = {"id", "email"}
        /\ applied[i].err # ""
        /\ models = applied[i].before

\* the models of the state when SetState call i had returned
After(i) == IF i = Len(applied) THEN models ELSE applied[i + 1].before

\* the SetState calls of AddFields and RemoveFields that returned an error,
\* and those that returned none
FieldCalls(failed) ==
    {i \in DOMAIN applied :
        /\ applied[i].op.op \in {"AddFields", "RemoveFields"}
        /\ (applied[i].err # "") = failed}

\* C26: when AddFields.SetState or RemoveFields.SetState returns an error
\* (model missing, duplicate field, a missing field anywhere in the list),
\* the models of the state, and the fields, table and indexes of the target,
\* are what they were before the call.
Thm_C26_FailedSetStateKeepsState ==
    \A i \in FieldCalls(TRUE) : After(i) = applied[i].before

\* a RemoveFields naming the same field twice has failed at the second name,
\* after the first was found, and the model still has the field
Wit_C26_SecondNameMissing ==
    \E i \in FieldCalls(TRUE) :
        /\ applied[i].op.op = "RemoveFields"
        /\ applied[i].op.Fields = <<"email", "email">>
        /\ applied[i].err = "field not found"
        /\ "email" \in DOMAIN applied[i].before["User"].fields
        /\ "email" \in DOMAIN After(i)["User"].fields
        /\ After(i)["User"].indexes # <<>>

\* C27: a successful AddFields.SetState or RemoveFields.SetState changes the
\* field set of its model and nothing else: the model's table name and its
\* indexes are the same, and every other model of the state is unchanged.
Thm_C27_SetStateFrame ==
    \A i \in FieldCalls(FALSE) :
        LET op == applied[i].op
            was == applied[i].before
            now == After(i)
        IN  /\ DOMAIN now = DOMAIN was
            /\ \A name \in DOMAIN was \ {op.Model} : now[name] = was[name]
            /\ Table(now[op.Model]) = Table(was[op.Model])
            /\ now[op.Model].indexes = was[op.Model].indexes
            /\ now[op.Model].name = was[op.Model].name
            /\ op.op = "AddFields" =>
                  now[op.Model].fields = op.Fields.map @@ was[op.Model].fields
            /\ op.op = "RemoveFields" =>
                  now[op.Model].fields =
                      [n \in DOMAIN was[op.Model].fields \ Range(op.Fields)
                          |-> was[op.Model].fields[n]]

\* a field was added to a model with a table name of its own and an index
Wit_C27_FieldAddedIndexKept ==
    \E i \in FieldCalls(FALSE) :
        /\ applied[i].op.op = "AddFields"
        /\ applied[i].before["User"].table \notin {"", "main_user"}
        /\ applied[i].before["User"].indexes # <<>>
        /\ After(i)["User"].indexes = applied[i].before["User"].indexes
        /\ DOMAIN After(i)["User"].fields # DOMAIN applied[i].before["User"].fields
        /\ "Group" \in DOMAIN After(i)

\* a snapshot has one primary-key field and indexes over its own fields
WellFormed(m) ==
    /\ Cardinality(PrimaryKeys(m)) = 1
    /\ \A i \in DOMAIN m.indexes : Range(m.indexes[i]) \subseteq DOMAIN m.fields

\* C17: after successful SetState calls of CreateModel, AddFields,
\* RemoveFields and DeleteModel from a state of well-formed snapshots, every
\* snapshot has exactly one primary-key field and every index names only
\* fields of the snapshot.
Cex_C17_SnapshotInvariant ==
    (\A i \in DOMAIN applied :
        applied[i].op.op \in {"CreateModel", "AddFields", "RemoveFields",
                              "DeleteModel"})
    => \A name \in DOMAIN models : WellFormed(models[name])

\* two migrations over the same model and field set, one adding the fields
\* and one removing them
Mirrored(a, r) ==
    /\ ran[a].op.op = "AddFields"
    /\ ran[r].op.op = "RemoveFields"
    /\ ran[a].op.Model = ran[r].op.Model
    /\ DOMAIN ran[a].op.Fields.map = Range(ran[r].op.Fields)
    /\ ran[a].state = ran[r].prevState
    /\ ran[a].prevState = ran[r].state

\* C16: AddFields.Backwards issues the engine call of RemoveFields.Run with
\* the same model shapes, and RemoveFields.Backwards the engine call of
\* AddFields.Run with the same model shape and fields.
Cex_C16_FieldOperationsInverse ==
    \A a, r \in DOMAIN ran :
        Mirrored(a, r) =>
            /\ (ran[a].by = "AddFields.Backwards" /\ ran[r].by = "RemoveFields.Run")
               => /\ ran[a].call.fn = ran[r].call.fn
                  /\ ran[a].call.models = ran[r].call.models
                  /\ Range(ran[a].call.fields) = Range(ran[r].call.fields)
            /\ (ran[a].by = "AddFields.Run" /\ ran[r].by = "RemoveFields.Backwards")
               => /\ ran[a].call.fn = ran[r].call.fn
                  /\ ran[a].call.models = ran[r].call.models
                  /\ ran[a].call.fields = ran[r].call.fields

-----------------------------------------------------------------------------
(* The sqlite engine: AddColumns and DropColumns *)

\* a field: its Column option, whether it is nullable, whether it has a default
Column(pk, column, null, default) ==
    [PrimaryKey |-> pk, Column |-> column, Null |-> null, Default |-> default]

\* the nil Field that a map of fields yields for a key it does not hold
NilField == [nil |-> TRUE]

\* the table of a model and the table fmt.Sprintf("%s__new", model.Table())
TableName(model) == <<Table(model)>>

copyName(model) == <<Table(model), "__new">>

\* the columns of the named fields of a model
ColumnsOf(fields) == {DBColumn(fields[n], n) : n \in DOMAIN fields}

\* places in a call where no statement is sent and the call ends: a panic on
\* a nil Field, an error that the method itself returns
Panics == [stmt |-> "panic"]

Fails == [stmt |-> "error"]

\* CreateTable(model, true): the columns of the fields, in the order given
CreateTable(name, fields, order) ==
    [stmt |-> "CREATE TABLE", table |-> name, columns |-> ColumnsOf(fields),
     order |-> order]

\* DropTable(model)
DropTable(model) == [stmt |-> "DROP TABLE", table |-> TableName(model)]

\* RenameTable(old, new)
RenameTable(old, new) == [stmt |-> "RENAME TABLE", table |-> old, to |-> new]

\* the engine's AddIndex(model, name, fields...)
CreateIndex(model, name, fields) ==
    [stmt |-> "CREATE INDEX", name |-> name, table |-> TableName(model),
     fields |-> fields]

\* copyTable: the statements it sends, one sequence per order of its ranges
copyTable(m, name, fields) ==
    LET modelCopy ==
            IF Len(fields) > 0
            THEN [n \in Range(fields) |->
                    IF n \in DOMAIN m.fields THEN m.fields[n] ELSE NilField]
            ELSE m.fields
        held == {n \in DOMAIN modelCopy : modelCopy[n] # NilField}
    IN  IF held # DOMAIN modelCopy
        THEN {<<Panics>>}
             \cup {<<CreateTable(name, [n \in held |-> modelCopy[n]], order), Panics>> :
                      order \in Perms(ColumnsOf([n \in held |-> modelCopy[n]]))}
        ELSE {<<CreateTable(name, modelCopy, order),
                [stmt |-> "INSERT SELECT", table |-> name, columns |-> columns,
                 from |-> TableName(m)]>> :
                 order \in Perms(ColumnsOf(modelCopy)),
                 columns \in Perms(ColumnsOf(modelCopy))}

\* a rebuild that ends with the copy
Rebuild_CopyOnly(model, copies) == copies

\* the rebuild that ends AddColumns and DropColumns: the copy, then drop,
\* rename and one index per index of the model
Rebuild(model, copies) ==
    {IF Panics \in Range(c) THEN c
     ELSE c \o <<DropTable(model), RenameTable(copyName(model), TableName(model))>>
            \o [i \in 1..Len(ord) |->
                   CreateIndex(model, ord[i], Indexes(model).map[ord[i]])] :
        c \in copies, ord \in Perms(DOMAIN Indexes(model).map)}

\* SqliteEngine.DropColumns: the statements it sends when none fails
DropColumns(model, fields) ==
    LET all == Fields(model).map
        oldFields == [n \in DOMAIN all \ Range(fields) |-> all[n]]
    IN  UNION {Rebuild(model, copyTable(model, copyName(model), keepCols)) :
                  keepCols \in Perms(ColumnsOf(oldFields))}

\* an AddColumns that does not look for the defaults of the not-null fields
AddColumns_Unchecked(model, fields) ==
    LET notNullFields == {n \in DOMAIN fields : ~fields[n].Null}
        alter(ord) == [i \in 1..Len(ord) |->
                          [stmt |-> "ADD COLUMN", table |-> TableName(model),
                           column |-> DBColumn(fields[ord[i]], ord[i])]]
        update == [stmt |-> "UPDATE", table |-> TableName(model),
                   columns |-> {DBColumn(model.fields[n], n) :
                                   n \in (notNullFields \cap DOMAIN model.fields)
                                         \ {model.pk}}]
    IN  IF notNullFields = {}
        THEN {alter(ord) : ord \in Perms(DOMAIN fields)}
        ELSE UNION {{alter(ord) \o <<update>> \o r :
                        r \in Rebuild(model, copyTable(model, copyName(model), <<>>))} :
                       ord \in Perms(DOMAIN fields)}

\* SqliteEngine.AddColumns: the statements it sends when none fails
AddColumns(model, fields) ==
    LET notNullFields == {n \in DOMAIN fields : ~fields[n].Null}
        alter(ord) == [i \in 1..Len(ord) |->
                          [stmt |-> "ADD COLUMN", table |-> TableName(model),
                           column |-> DBColumn(fields[ord[i]], ord[i])]]
        update == [stmt |-> "UPDATE", table |-> TableName(model),
                   columns |-> {DBColumn(model.fields[n], n) :
                                   n \in (notNullFields \cap DOMAIN model.fields)
                                         \ {model.pk}}]
    IN  IF notNullFields = {}
        THEN {alter(ord) : ord \in Perms(DOMAIN fields)}
        ELSE IF \E n \in notNullFields : ~fields[n].Default
        THEN {alter(ord) \o <<Fails>> : ord \in Perms(DOMAIN fields)}
        ELSE UNION {{alter(ord) \o <<update>> \o r :
                        r \in Rebuild(model, copyTable(model, copyName(model), <<>>))} :
                       ord \in Perms(DOMAIN fields)}

\* a database that executes every statement
NeverFails == 0

\* a call that goes on after a statement has failed
StopsAt_GoesOn(plan, failAt) ==
    LET stops == {i \in DOMAIN plan : plan[i] \in {Panics, Fails}}
    IN  IF stops = {} THEN 0 ELSE CHOOSE i \in stops : \A j \in stops : i <= j

\* where a call ends early: at the first panic or returned error, or at the
\* statement that the database fails (0: the call runs to its end)
StopsAt(plan, failAt) ==
    LET stops == {i \in DOMAIN plan : plan[i] \in {Panics, Fails} \/ i = failAt}
    IN  IF stops = {} THEN 0 ELSE CHOOSE i \in stops : \A j \in stops : i <= j

\* the database after a statement
Apply(tabs, st) ==
    CASE st.stmt = "CREATE TABLE" -> (st.table :> st.columns) @@ tabs
      [] st.stmt = "DROP TABLE"   -> Without(tabs, st.table)
      [] st.stmt = "RENAME TABLE" ->
            IF st.table \in DOMAIN tabs
            THEN (st.to :> tabs[st.table]) @@ Without(tabs, st.table)
            ELSE tabs
      [] st.stmt = "ADD COLUMN"   ->
            IF st.table \in DOMAIN tabs
            THEN [tabs EXCEPT ![st.table] = @ \cup {st.column}]
            ELSE tabs
      [] OTHER -> tabs

RECURSIVE ApplyAll(_, _)
ApplyAll(tabs, stmts) ==
    IF stmts = <<>> THEN tabs
    ELSE ApplyAll(Apply(tabs, Head(stmts)), Tail(stmts))

\* a call's run: every statement goes to the database (dbMocker.Exec keeps
\* it, also the one it fails), and an error or a panic ends the call
Exec(plan, failAt) ==
    LET stop == StopsAt(plan, failAt)
        failed == failAt \in DOMAIN plan /\ failAt <= (IF stop = 0 THEN Len(plan) ELSE stop)
    IN  [result   |-> IF stop = 0 THEN (IF failed THEN "error" ELSE "ok")
                      ELSE IF plan[stop] = Panics THEN "panic" ELSE "error",
         executed |-> IF stop = 0 THEN plan
                      ELSE IF plan[stop] \in {Panics, Fails}
                           THEN SubSeq(plan, 1, stop - 1)
                           ELSE SubSeq(plan, 1, stop),
         done     |-> LET upto == IF stop = 0 THEN Len(plan) ELSE stop - 1
                      IN  SelectSeq([i \in 1..upto |-> IF i = failAt THEN Fails ELSE plan[i]],
                                    LAMBDA st : st # Fails)]

-----------------------------------------------------------------------------
(* The sqlite engine's specification *)

MaxCalls == 2

MaxStmts == 9

\* no two fields share a column
DistinctColumns(fields) ==
    \A n1, n2 \in DOMAIN fields :
        DBColumn(fields[n1], n1) = DBColumn(fields[n2], n2) => n1 = n2

\* the indexes a model may declare
EngineIndexes == [test_index |-> <<"email">>, id_index |-> <<"id">>]

\* the models whose table the database holds at the start: id, and email and
\* active with or without a column name of their own, which may be the name
\* of another field
EngineModels ==
    {m \in {[name |-> "User", app |-> "main", pk |-> "id", table |-> "users_user",
             fields |-> f, indexes |-> [i \in is |-> EngineIndexes[i]]] :
               f \in {[id |-> Column(TRUE, "", FALSE, FALSE)] @@ e @@ a :
                        e \in {<<>>} \cup {[email |-> Column(FALSE, c, FALSE, FALSE)] :
                                              c \in {"", "mail", "active"}},
                        a \in {<<>>} \cup {[active |-> Column(FALSE, c, FALSE, TRUE)] :
                                              c \in {"", "is_active"}}},
               is \in SUBSET DOMAIN EngineIndexes} :
        /\ \A i \in DOMAIN m.indexes : Range(m.indexes[i]) \subseteq DOMAIN m.fields
        /\ DistinctColumns(m.fields)}

\* the fields a migration may add
NewColumns ==
    {[active |-> Column(FALSE, "", FALSE, TRUE)],
     [active |-> Column(FALSE, "is_active", TRUE, FALSE)],
     [active |-> Column(FALSE, "", FALSE, FALSE)],
     [email |-> Column(FALSE, "", TRUE, FALSE),
      active |-> Column(FALSE, "", FALSE, TRUE)]}

\* the fields a migration may drop
DropLists == {<<"active">>, <<"email">>, <<"email", "active">>}

InitEngine ==
    /\ MigInit
    /\ CondIdle
    /\ DiffIdle
    /\ ReplayIdle
    /\ RestIdle
    /\ emodel \in EngineModels
    /\ tables = (TableName(emodel) :> ColumnsOf(emodel.fields))
    /\ executed = <<>>
    /\ ddl = NoDDL

\* a call of the engine on a model, with the database failing statement
\* failAt: what it sends, what the database holds then, the model it leaves
DDL(fn, model, fields, plans, failAt, after) ==
    /\ ddl.n < MaxCalls
    /\ ddl.result = "ok"
    /\ \E plan \in plans :
          LET r == Exec(plan, failAt)
          IN  /\ executed' = r.executed
              /\ tables' = ApplyAll(tables, r.done)
              /\ ddl' = [fn |-> fn, n |-> ddl.n + 1, result |-> r.result,
                         model |-> model, fields |-> fields, failAt |-> failAt,
                         before |-> tables]
              /\ emodel' = IF r.result = "ok" THEN after ELSE emodel
    /\ UNCHANGED <<migVars, condVars, diffVars, replayVars, restVars>>

\* DropColumns(model, fields...) on the model of the table
CallDropColumns(fields, failAt) ==
    /\ Range(fields) \subseteq DOMAIN emodel.fields \ {emodel.pk}
    /\ LET left == DOMAIN emodel.fields \ Range(fields)
       IN  DDL("DropColumns", emodel, fields, DropColumns(emodel, fields), failAt,
               [emodel EXCEPT
                   !.fields = [n \in left |-> emodel.fields[n]],
                   !.indexes = [i \in {j \in DOMAIN emodel.indexes :
                                          Range(emodel.indexes[j]) \subseteq left}
                                   |-> emodel.indexes[i]]])

\* AddColumns(model, fields) on the model that holds the new fields
CallAddColumns(fields, failAt) ==
    /\ DOMAIN fields \cap DOMAIN emodel.fields = {}
    /\ DistinctColumns(fields @@ emodel.fields)
    /\ LET model == [emodel EXCEPT !.fields = fields @@ emodel.fields]
       IN  DDL("AddColumns", model, fields, AddColumns(model, fields), failAt, model)

NextEngine ==
    \/ \E f \in DropLists, k \in 0..MaxStmts : CallDropColumns(f, k)
    \/ \E f \in NewColumns, k \in 0..MaxStmts : CallAddColumns(f, k)

SpecEngine == InitEngine /\ [][NextEngine]_vars

-----------------------------------------------------------------------------
(* Claims about the sqlite engine *)

\* the statements of a rebuild of a model's table, by kind
RebuildKinds(model) ==
    <<"CREATE TABLE", "INSERT SELECT", "DROP TABLE", "RENAME TABLE">>
    \o [i \in 1..Cardinality(DOMAIN model.indexes) |-> "CREATE INDEX"]

\* statements from position from on are those of a rebuild of the model's
\* table, as far as they go: kinds in order, the tables they name, and no
\* index created twice
RebuildFrom(from, model) ==
    LET kinds == RebuildKinds(model)
        at(i) == executed[from + i - 1]
        n == Len(executed) - from + 1
    IN  /\ n <= Len(kinds)
        /\ \A i \in 1..n : at(i).stmt = kinds[i]
        /\ n >= 1 => at(1).table = copyName(model)
        /\ n >= 2 => at(2).table = copyName(model) /\ at(2).from = TableName(model)
        /\ n >= 3 => at(3).table = TableName(model)
        /\ n >= 4 => at(4).table = copyName(model) /\ at(4).to = TableName(model)
        /\ \A i \in 5..n :
              /\ at(i).name \in DOMAIN model.indexes
              /\ at(i).fields = model.indexes[at(i).name]
              /\ at(i).table = TableName(model)
              /\ \A j \in 5..n : at(j).name = at(i).name => j = i

\* C18: DropColumns sends create shadow table, INSERT ... SELECT, drop
\* original, rename shadow, then one index per index of the model, in this
\* order; the original is not dropped unless the copy succeeded, and a failed
\* statement is the last one sent.
Thm_C18_DropColumnsSequence ==
    ddl.fn = "DropColumns" =>
        /\ RebuildFrom(1, ddl.model)
        /\ ddl.result = "ok" => Len(executed) = Len(RebuildKinds(ddl.model))
        /\ ddl.failAt \in 1..Len(RebuildKinds(ddl.model)) /\ ddl.result # "panic"
              => ddl.result = "error" /\ Len(executed) = ddl.failAt
        /\ (\E i \in DOMAIN executed : executed[i].stmt = "DROP TABLE")
              => ddl.failAt \notin {1, 2}
        /\ ddl.failAt \in {1, 2} => TableName(ddl.model) \in DOMAIN tables

\* the copy into the shadow table failed: two statements sent, the original
\* table of a model with an index still there
Wit_C18_CopyFailed ==
    /\ ddl.fn = "DropColumns"
    /\ ddl.failAt = 2
    /\ ddl.result = "error"
    /\ Len(executed) = 2
    /\ executed[2].stmt = "INSERT SELECT"
    /\ DOMAIN ddl.model.indexes # {}
    /\ TableName(ddl.model) \in DOMAIN tables

\* C19: after DropColumns(model, F) has succeeded, the table has exactly the
\* columns of the model's fields that are not in F, also for fields with a
\* column name of their own.
Cex_C19_DropColumnsResult ==
    (ddl.fn = "DropColumns" /\ ddl.result = "ok") =>
        LET m == ddl.model
            left == DOMAIN m.fields \ Range(ddl.fields)
        IN  /\ TableName(m) \in DOMAIN tables
            /\ tables[TableName(m)] = ColumnsOf([n \in left |-> m.fields[n]])

\* the rows of the shadow table after INSERT INTO shadow SELECT columns: the
\* i-th column of the table takes the i-th selected column of each row
Copied(row, order, columns) ==
    [c \in Range(order) |->
        row[columns[CHOOSE i \in DOMAIN order : order[i] = c]]]

\* C28: in copyTable the columns of the shadow table and the columns that
\* INSERT INTO shadow SELECT names are in the same order, so each kept
\* column of each row has in the shadow table the value it had in the
\* original, whatever the order in which the field map is ranged over.
Cex_C28_CopyKeepsColumns ==
    \A i \in DOMAIN executed :
        (executed[i].stmt = "INSERT SELECT" /\ i > 1) =>
            LET order == executed[i - 1].order
                columns == executed[i].columns
                row == [c \in Range(columns) |-> <<"value of", c>>]
            IN  /\ order = columns
                /\ Copied(row, order, columns) = row

\* C20: AddColumns with a not-null field, every not-null field having a
\* default, sends one ALTER TABLE ADD COLUMN per field, one UPDATE of the
\* not-null fields, the rebuild and every index of the model; with nullable
\* fields only it sends the ALTER TABLE statements and nothing else.
Thm_C20_AddColumnsSequence ==
    (ddl.fn = "AddColumns" /\ ddl.failAt = NeverFails) =>
        LET m == ddl.model
            k == Cardinality(DOMAIN ddl.fields)
            notNull == {n \in DOMAIN ddl.fields : ~ddl.fields[n].Null}
            alters == /\ Len(executed) >= k
                      /\ \A i \in 1..k : /\ executed[i].stmt = "ADD COLUMN"
                                         /\ executed[i].table = TableName(m)
                      /\ {executed[i].column : i \in 1..k} = ColumnsOf(ddl.fields)
        IN  /\ notNull = {} =>
                  alters /\ Len(executed) = k /\ ddl.result = "ok"
            /\ (notNull # {} /\ \A n \in notNull : ddl.fields[n].Default) =>
                  /\ alters
                  /\ ddl.result = "ok"
                  /\ Len(executed) = k + 1 + Len(RebuildKinds(m))
                  /\ executed[k + 1].stmt = "UPDATE"
                  /\ executed[k + 1].table = TableName(m)
                  /\ executed[k + 1].columns
                        = ColumnsOf([n \in notNull |-> ddl.fields[n]])
                  /\ RebuildFrom(k + 2, m)

\* a nullable and a not-null field with a default were added to a model with
\* an index: two ALTER TABLE, the UPDATE, the rebuild and the index
Wit_C20_TwoFieldsRebuilt ==
    /\ ddl.fn = "AddColumns"
    /\ ddl.failAt = NeverFails
    /\ ddl.result = "ok"
    /\ Cardinality(DOMAIN ddl.fields) = 2
    /\ Cardinality(DOMAIN ddl.model.indexes) = 1
    /\ Len(executed) = 8

\* C21: AddColumns with a not-null field that has no default returns an
\* error; no UPDATE and no statement of the rebuild is sent, and the original
\* table is still there.
Thm_C21_NoDefaultNoRebuild ==
    (/\ ddl.fn = "AddColumns"
     /\ \E n \in DOMAIN ddl.fields : ~ddl.fields[n].Null /\ ~ddl.fields[n].Default) =>
        /\ ddl.result = "error"
        /\ \A i \in DOMAIN executed : executed[i].stmt = "ADD COLUMN"
        /\ TableName(ddl.model) \in DOMAIN tables
        /\ copyName(ddl.model) \notin DOMAIN tables

\* a not-null field without a default was added on a database that executes
\* every statement: its ALTER TABLE was sent and the call returned an error
Wit_C21_AlterThenError ==
    /\ ddl.fn = "AddColumns"
    /\ ddl.failAt = NeverFails
    /\ \E n \in DOMAIN ddl.fields : ~ddl.fields[n].Null /\ ~ddl.fields[n].Default
    /\ ddl.result = "error"
    /\ Len(executed) = 1
    /\ executed[1].stmt = "ADD COLUMN"

-----------------------------------------------------------------------------
(* Operation lists as JSON: OperationList.MarshalJSON and UnmarshalJSON *)

\* JSON values, by type
JString(s) == [t |-> "string", s |-> s]

JNumber == [t |-> "number"]

JArray(a) == [t |-> "array", a |-> a]

JObject(o) == [t |-> "object", o |-> o]

\* what json.Unmarshal returns for text that is not JSON, for a value of the
\* wrong JSON type, and no error
SyntaxError == <<"json.SyntaxError">>

UnmarshalTypeError == <<"json.UnmarshalTypeError">>

NoError == <<>>

\* the field types that AvailableFields holds
AvailableFields == {"IntegerField", "AutoField", "BooleanField", "CharField"}

\* Fields.MarshalJSON: each field under the name of its type
Fields_MarshalJSON(fields) ==
    JObject([n \in DOMAIN fields |-> JObject(fields[n].type :> JObject(<<>>))])

\* Fields.UnmarshalJSON: an object of objects, each naming a field type
Fields_UnmarshalJSON(v) ==
    IF \/ v.t # "object"
       \/ \E n \in DOMAIN v.o : v.o[n].t # "object"
    THEN {[err |-> UnmarshalTypeError]}
    ELSE LET types(n) == DOMAIN v.o[n].o
             bad == {<<n, ty>> \in UNION {{n} \X types(n) : n \in DOMAIN v.o} :
                        ty \notin AvailableFields}
         IN  IF bad # {}
             THEN {[err |-> <<"invalid field type", b[2]>>] : b \in bad}
             ELSE {[err |-> NoError, fields |-> f] :
                      f \in {g \in [{n \in DOMAIN v.o : types(n) # {}}
                                       -> [type : AvailableFields]] :
                                \A n \in DOMAIN g : g[n].type \in types(n)}}

\* the operations of this version: Name()
Name(op) == op.op

\* the operation types that AvailableOperations holds
AvailableOperations == {"CreateModel", "DeleteModel", "AddFields"}

\* the JSON object of an operation's exported fields
Payload(op) ==
    CASE Name(op) \in {"CreateModel", "AddFields"} ->
            [Model |-> JString(op.Model), Fields |-> Fields_MarshalJSON(op.Fields)]
      [] Name(op) = "DeleteModel" -> [Model |-> JString(op.Model)]
      [] Name(op) = "RemoveFields" ->
            [Model |-> JString(op.Model), Fields |-> JArray(op.Fields)]
      [] Name(op) = "AddIndex" ->
            [Model |-> JString(op.Model), Name |-> JString(op.Name),
             Fields |-> JArray(op.Fields)]
      [] Name(op) = "RemoveIndex" ->
            [Model |-> JString(op.Model), Name |-> JString(op.Name)]

\* OperationList.MarshalJSON: a list of objects, each holding one operation
\* under its name
MarshalJSON(list) ==
    [valid |-> TRUE, list |-> [i \in DOMAIN list |-> (Name(list[i]) :> Payload(list[i]))]]

\* FromJSON of a registered operation: json.Unmarshal(raw, &op)
FromJSON(name, raw) ==
    LET model == IF "Model" \in DOMAIN raw THEN raw.Model ELSE JString("")
        decoded == IF "Fields" \in DOMAIN raw /\ name # "DeleteModel"
                   THEN Fields_UnmarshalJSON(raw.Fields)
                   ELSE {[err |-> NoError, fields |-> <<>>]}
    IN  IF model.t # "string"
        THEN {[err |-> IF d.err = NoError THEN UnmarshalTypeError ELSE d.err] :
                 d \in decoded}
        ELSE {IF d.err # NoError THEN [err |-> d.err]
              ELSE [err |-> NoError,
                    op  |-> IF name = "DeleteModel"
                            THEN [op |-> name, Model |-> model.s]
                            ELSE [op |-> name, Model |-> model.s,
                                  Fields |-> d.fields]] :
                 d \in decoded}

\* an UnmarshalJSON that stores what it has built when it returns an error
ReturnErr_Stored(op, list, err) == [err |-> err, list |-> list]

\* return err: *op keeps the list it had
ReturnErr(op, list, err) == [err |-> err, list |-> op]

\* the loop of UnmarshalJSON over the entries still to come, each a name and
\* its raw message: op is the target as it was, list the local opList
RECURSIVE Entries(_, _, _)
Entries(op, list, pairs) ==
    IF pairs = <<>> THEN {[err |-> NoError, list |-> list]}
    ELSE LET name == Head(pairs)[1]
             rawOp == Head(pairs)[2]
         IN  IF name \notin AvailableOperations
             THEN {ReturnErr(op, list, <<"invalid operation", name>>)}
             ELSE UNION {IF r.err # NoError
                         THEN {ReturnErr(op, list, r.err)}
                         ELSE Entries(op, Append(op, r.op), Tail(pairs)) :
                            r \in FromJSON(name, rawOp)}

\* the orders in which the entries of a list of maps may be visited
RECURSIVE Visits(_)
Visits(rawList) ==
    IF rawList = <<>> THEN {<<>>}
    ELSE {[i \in DOMAIN ord |-> <<ord[i], Head(rawList)[ord[i]]>>] \o rest :
             ord \in Perms(DOMAIN Head(rawList)), rest \in Visits(Tail(rawList))}

\* OperationList.UnmarshalJSON: what it may return and leave in *op
UnmarshalJSON(op, data) ==
    IF ~data.valid THEN {ReturnErr(op, op, SyntaxError)}
    ELSE IF \E i \in DOMAIN data.list : data.list[i] = JNumber
    THEN {ReturnErr(op, op, UnmarshalTypeError)}
    ELSE UNION {Entries(op, op, pairs) : pairs \in Visits(data.list)}

-----------------------------------------------------------------------------
(* The specification of the operation lists as JSON *)

MaxCodecCalls == 3

MaxOps == 2

\* the operations a list may hold
Operations ==
    {[op |-> "CreateModel", Model |-> "User",
      Fields |-> [id |-> [type |-> "AutoField"], email |-> [type |-> "CharField"]]],
     [op |-> "DeleteModel", Model |-> "User"],
     [op |-> "AddFields", Model |-> "User",
      Fields |-> [active |-> [type |-> "BooleanField"]]],
     [op |-> "RemoveFields", Model |-> "User", Fields |-> <<"email">>],
     [op |-> "AddIndex", Model |-> "User", Name |-> "email_idx",
      Fields |-> <<"email">>],
     [op |-> "RemoveIndex", Model |-> "User", Name |-> "email_idx"]}

OperationLists == UNION {[1..n -> Operations] : n \in 0..MaxOps}

\* one entry of a document: an operation under its name
Entry(op) == Name(op) :> Payload(op)

UnknownOperation == "UnknownOperation" :> <<>>

DeleteUser == Entry([op |-> "DeleteModel", Model |-> "User"])

\* the documents a caller may hand in: text that is not JSON, a list of
\* numbers, entries with an unknown name, with a payload of the wrong type,
\* with a field of an unknown type, and well-formed lists
Documents ==
    {[valid |-> FALSE],
     [valid |-> TRUE, list |-> <<JNumber>>],
     [valid |-> TRUE, list |-> <<UnknownOperation>>],
     [valid |-> TRUE, list |-> <<"CreateModel" :> [Model |-> JNumber]>>],
     [valid |-> TRUE,
      list  |-> <<"AddFields" :> [Model |-> JString("User"), Fields |-> JArray(<<>>)]>>],
     [valid |-> TRUE,
      list  |-> <<"CreateModel" :>
                    [Model |-> JString("User"),
                     Fields |-> JObject([id |-> JObject("TextField" :> JObject(<<>>))])]>>],
     [valid |-> TRUE, list |-> <<DeleteUser, UnknownOperation>>],
     [valid |-> TRUE, list |-> <<DeleteUser, "DeleteModel" :> [Model |-> JNumber]>>],
     [valid |-> TRUE, list |-> <<DeleteUser @@ UnknownOperation>>],
     [valid |-> TRUE, list |-> <<>>],
     [valid |-> TRUE, list |-> <<DeleteUser>>]}

InitJSON ==
    /\ MigInit
    /\ CondIdle
    /\ DiffIdle
    /\ ReplayIdle
    /\ EngineIdle
    /\ SaveIdle
    /\ TxIdle
    /\ opList \in {<<>>, <<[op |-> "DeleteModel", Model |-> "User"]>>}
    /\ codec = NoCodec

\* opList.MarshalJSON() of a list
CallMarshal(list) ==
    /\ codec.n < MaxCodecCalls
    /\ codec' = [fn |-> "Marshal", n |-> codec.n + 1, marshalled |-> list,
                 data |-> MarshalJSON(list), err |-> NoError]
    /\ UNCHANGED <<opList, migVars, condVars, diffVars, replayVars, engVars, saveVars, txVars>>

\* opList.UnmarshalJSON(data) on the target list
Decode(data, from, marshalled) ==
    /\ codec.n < MaxCodecCalls
    /\ \E r \in UnmarshalJSON(opList, data) :
          /\ opList' = r.list
          /\ codec' = [fn |-> "Unmarshal", n |-> codec.n + 1, data |-> data,
                       from |-> from, marshalled |-> marshalled,
                       err |-> r.err, before |-> opList]
    /\ UNCHANGED <<migVars, condVars, diffVars, replayVars, engVars, saveVars, txVars>>

\* UnmarshalJSON of a document the caller wrote
CallUnmarshal(data) == Decode(data, "caller", <<>>)

\* UnmarshalJSON of what the last MarshalJSON returned
UnmarshalMarshalled ==
    /\ codec.fn = "Marshal"
    /\ Decode(codec.data, "MarshalJSON", codec.marshalled)

\* a caller empties the target list
NewList ==
    /\ opList # <<>>
    /\ opList' = <<>>
    /\ codec' = [fn |-> "none", n |-> codec.n]
    /\ UNCHANGED <<migVars, condVars, diffVars, replayVars, engVars, saveVars, txVars>>

NextJSON ==
    \/ \E list \in OperationLists : CallMarshal(list)
    \/ \E data \in Documents : CallUnmarshal(data)
    \/ UnmarshalMarshalled
    \/ NewList

SpecJSON == InitJSON /\ [][NextJSON]_vars

-----------------------------------------------------------------------------
(* Claims about the operation lists as JSON *)

\* the entries of a document that cannot be decoded: by position, the error
\* that each of them may make the call return
Faults(data) ==
    {<<i, e>> \in (DOMAIN data.list) \X
                  ({UnmarshalTypeError}
                   \cup {<<"invalid operation", n>> :
                            n \in UNION {DOMAIN data.list[j] : j \in DOMAIN data.list}}
                   \cup {<<"invalid field type", "TextField">>}) :
        \E n \in DOMAIN data.list[i] :
            \/ n \notin AvailableOperations /\ e = <<"invalid operation", n>>
            \/ /\ n \in AvailableOperations
               /\ e \in {r.err : r \in FromJSON(n, data.list[i][n])}
               /\ e # NoError}

\* C22: UnmarshalJSON of text that is not JSON returns a syntax error; of a
\* list with an entry of an unregistered name, "invalid operation: <name>";
\* of a list with a payload of the wrong type, a type-mismatch error (the
\* error of the first entry that cannot be decoded); and whenever it returns
\* an error the target list is what it was before.
Thm_C22_UnmarshalFailsExplicitly ==
    (codec.fn = "Unmarshal") =>
        /\ codec.err # NoError => opList = codec.before
        /\ ~codec.data.valid => codec.err = SyntaxError
        /\ (codec.data.valid /\ JNumber \notin Range(codec.data.list)) =>
              LET faults == Faults(codec.data)
                  first == {f \in faults : \A g \in faults : f[1] <= g[1]}
              IN  /\ faults # {} => codec.err \in {f[2] : f \in first}
                  /\ faults = {} => codec.err = NoError

\* after an operation was decoded, the next entry had an unregistered name:
\* the call on a list of one operation returned the error and the list still
\* holds that one operation
Wit_C22_UnknownAfterValid ==
    /\ codec.fn = "Unmarshal"
    /\ codec.data = [valid |-> TRUE, list |-> <<DeleteUser, UnknownOperation>>]
    /\ codec.err = <<"invalid operation", "UnknownOperation">>
    /\ Len(codec.before) = 1
    /\ opList = codec.before

\* C23: marshalling a list of n operations of the six kinds and unmarshalling
\* the result into an empty list succeeds and yields n operations of the
\* same kinds in the same order.
Cex_C23_RoundTrip ==
    (/\ codec.fn = "Unmarshal"
     /\ codec.from = "MarshalJSON"
     /\ codec.before = <<>>) =>
        /\ codec.err = NoError
        /\ Len(opList) = Len(codec.marshalled)
        /\ \A i \in DOMAIN opList : Name(opList[i]) = Name(codec.marshalled[i])

-----------------------------------------------------------------------------
(* Instances: Save *)

\* the pk value of an instance whose container holds none
NilPk == -1

\* what the calls of a Save return
InvalidTarget == "DatabaseError: invalid target"

ContainerError == "ContainerError"

DatabaseError == "DatabaseError"

\* Instance.Set("pk", pk): the container takes the value, or it cannot be set
Set(i, pk) ==
    IF i.settable THEN [err |-> "", inst |-> [i EXCEPT !.pk = pk]]
    ELSE [err |-> ContainerError, inst |-> i]

\* valueToSave of each named field: an unknown field is an error
Unknown(i, fields) == \E k \in DOMAIN fields : fields[k] \notin i.fields

\* insertRow(target, autoPk, fields...) as engine call number k of the Save,
\* after the calls made so far; the engine fails call number failAt and
\* returns the id of the new row otherwise
insertRow(i, rows, registered, autoPk, fields, sofar, failAt, id) ==
    IF ~registered THEN [err |-> InvalidTarget, calls |-> sofar, inst |-> i, rows |-> rows]
    ELSE IF Unknown(i, fields)
    THEN [err |-> ContainerError, calls |-> sofar, inst |-> i, rows |-> rows]
    ELSE LET sent == Append(sofar, [fn |-> "InsertRow", id |-> id])
         IN  IF failAt = Len(sent)
             THEN [err |-> DatabaseError, calls |-> sent, inst |-> i, rows |-> rows]
             ELSE IF autoPk
             THEN LET r == Set(i, id)
                  IN  [err |-> r.err, calls |-> sent, inst |-> r.inst,
                       rows |-> rows \cup {id}]
             ELSE [err |-> "", calls |-> sent, inst |-> i, rows |-> rows \cup {id}]

\* updateRow(target, pkVal, fields...)
updateRow(i, rows, registered, pkVal, fields, failAt, id) ==
    IF ~registered THEN [err |-> InvalidTarget, calls |-> <<>>, inst |-> i, rows |-> rows]
    ELSE IF \E k \in DOMAIN fields : fields[k] # "id" /\ fields[k] \notin i.fields
    THEN [err |-> ContainerError, calls |-> <<>>, inst |-> i, rows |-> rows]
    ELSE LET n == IF pkVal \in rows THEN 1 ELSE 0
             sent == <<[fn |-> "UpdateRows", pk |-> pkVal, rows |-> n]>>
         IN  IF failAt = 1
             THEN [err |-> DatabaseError, calls |-> sent, inst |-> i, rows |-> rows]
             ELSE IF n = 0
             THEN insertRow(i, rows, registered, FALSE, fields, sent, failAt, id)
             ELSE [err |-> "", calls |-> sent, inst |-> i, rows |-> rows]

\* a save that inserts directly only when the pk value is nil
Direct_NilOnly(autoPk, pkVal) == pkVal = NilPk

\* save: no update is tried when the pk value is nil, or the pk is auto
\* incremented and has the zero value
Direct(autoPk, pkVal) == ~(pkVal # NilPk /\ ~(autoPk /\ pkVal = 0))

\* Instance.save(target, fields...)
save(i, rows, registered, fields, failAt, id) ==
    LET all == IF Len(fields) = 0 THEN Perms(i.fields) ELSE {fields}
        autoPk == i.auto
        pkVal == i.pk
    IN  {IF ~Direct(autoPk, pkVal)
         THEN updateRow(i, rows, registered, pkVal, f, failAt, id)
         ELSE insertRow(i, rows, registered, autoPk, f, <<>>, failAt, id) :
            f \in all}

-----------------------------------------------------------------------------
(* The specification of Save *)

MaxSaves == 3

MaxId == 2

\* the instances: an auto incremented pk or not, a container that can be set
\* or not, no pk value, the zero value or another one
Instances ==
    [auto : BOOLEAN, settable : BOOLEAN, pk : {NilPk} \cup 0..MaxId,
     fields : {{"id", "email"}}]

InitSave ==
    /\ MigInit
    /\ CondIdle
    /\ DiffIdle
    /\ ReplayIdle
    /\ EngineIdle
    /\ JSONIdle
    /\ TxIdle
    /\ inst \in Instances
    /\ store \in SUBSET (1..MaxId)
    /\ saved = NoSave

\* i.SaveOn(target, fields...): the engine fails its call number failAt
\* (0: none) and gives a new row an id that no row has
CallSave(registered, fields, failAt) ==
    /\ saved.n < MaxSaves
    /\ \E id \in 1..(MaxId + MaxSaves) :
          /\ id \notin store
          /\ \A j \in 1..(id - 1) : j \in store
          /\ \E r \in save(inst, store, registered, fields, failAt, id) :
                /\ inst' = r.inst
                /\ store' = r.rows
                /\ saved' = [fn |-> "Save", n |-> saved.n + 1, before |-> inst,
                             registered |-> registered, fields |-> fields,
                             failAt |-> failAt, calls |-> r.calls, err |-> r.err]
    /\ UNCHANGED <<migVars, condVars, diffVars, replayVars, engVars, jsonVars, txVars>>

\* i.Set("pk", val) by the caller
SetPk(val) ==
    /\ inst.settable
    /\ inst.pk # val
    /\ inst' = [inst EXCEPT !.pk = val]
    /\ saved' = [fn |-> "none", n |-> saved.n]
    /\ UNCHANGED <<store, migVars, condVars, diffVars, replayVars, engVars, jsonVars, txVars>>

NextSave ==
    \/ \E registered \in BOOLEAN, failAt \in 0..2,
          fields \in {<<>>, <<"email">>, <<"id", "email">>, <<"name">>} :
          CallSave(registered, fields, failAt)
    \/ \E val \in 0..MaxId : SetPk(val)

SpecSave == InitSave /\ [][NextSave]_vars

-----------------------------------------------------------------------------
(* Claims about Save *)

\* C24: Save inserts directly, without an UPDATE, iff the pk value is nil or
\* the pk is auto incremented and zero; otherwise its first call is an UPDATE
\* of the row matching the pk, followed by an INSERT only when the UPDATE
\* affected no row; it issues at most one INSERT; and after a direct insert
\* with an auto pk that returned no error the instance's pk is the id that
\* the engine returned. (A Save on an unregistered target or with an unknown
\* field name returns an error before any call.)
Thm_C24_SaveUpdateOrInsert ==
    (saved.fn = "Save") =>
        LET calls_ == saved.calls
            was == saved.before
            direct == was.pk = NilPk \/ (was.auto /\ was.pk = 0)
            valid == saved.registered /\ Range(saved.fields) \subseteq was.fields
        IN  /\ valid => calls_ # <<>>
            /\ Cardinality({k \in DOMAIN calls_ : calls_[k].fn = "InsertRow"}) <= 1
            /\ direct =>
                  /\ \A k \in DOMAIN calls_ : calls_[k].fn = "InsertRow"
                  /\ (was.auto /\ saved.err = "" /\ calls_ # <<>>)
                        => inst.pk = calls_[1].id
            /\ (~direct /\ calls_ # <<>>) =>
                  /\ calls_[1].fn = "UpdateRows"
                  /\ calls_[1].pk = was.pk
                  /\ Len(calls_) <= 2
                  /\ Len(calls_) = 2 =>
                        calls_[2].fn = "InsertRow" /\ calls_[1].rows = 0
                  /\ (calls_[1].rows = 0 /\ saved.failAt # 1 /\ valid)
                        => Len(calls_) = 2

\* an instance with an auto incremented pk of zero was saved: one INSERT, no
\* UPDATE, and the instance has the id of the new row
Wit_C24_DirectInsertSetsPk ==
    /\ saved.fn = "Save"
    /\ saved.before.auto
    /\ saved.before.pk = 0
    /\ saved.err = ""
    /\ Len(saved.calls) = 1
    /\ saved.calls[1].fn = "InsertRow"
    /\ inst.pk = saved.calls[1].id
    /\ inst.pk # 0

-----------------------------------------------------------------------------
(* Engine transactions: BeginTx, CommitTx, RollbackTx *)

\* the engine value without a transaction
NilTx == 0

DBError == "db error"

NoTxError == "no transaction"

\* a BeginTx that binds the transaction to the engine it was called on
Sqlite_BeginTx_OnReceiver(es, k, db, dbErr) ==
    IF dbErr THEN [err |-> DBError, engines |-> es, db |-> db]
    ELSE [err |-> "", db |-> Append(db, "open"),
          engines |-> Append([es EXCEPT ![k].tx = Len(db) + 1], es[k])]

\* SqliteEngine.BeginTx on engine value k: e is a copy of the receiver, the
\* transaction is set on the copy and the copy is returned
Sqlite_BeginTx(es, k, db, dbErr) ==
    IF dbErr THEN [err |-> DBError, engines |-> es, db |-> db]
    ELSE LET e == [es[k] EXCEPT !.tx = Len(db) + 1]
         IN  [err |-> "", engines |-> Append(es, e), db |-> Append(db, "open")]

\* tx.Commit / tx.Rollback of the database: an error of the database, or of
\* a transaction that is already done
EndTx(db, t, to, dbErr) ==
    IF dbErr \/ db[t] # "open" THEN [err |-> DBError, db |-> db]
    ELSE [err |-> "", db |-> [db EXCEPT ![t] = to]]

\* CommitTx on engine value k
CommitTx(es, k, db, dbErr) ==
    IF es[k].tx = NilTx THEN [err |-> NoTxError, db |-> db]
    ELSE EndTx(db, es[k].tx, "committed", dbErr)

\* RollbackTx on engine value k
RollbackTx(es, k, db, dbErr) ==
    IF es[k].tx = NilTx THEN [err |-> NoTxError, db |-> db]
    ELSE EndTx(db, es[k].tx, "rolled back", dbErr)

-----------------------------------------------------------------------------
(* The specification of the engine transactions *)

MaxEngines == 4

MaxTxCalls == 5

InitTx ==
    /\ MigInit
    /\ CondIdle
    /\ DiffIdle
    /\ ReplayIdle
    /\ EngineIdle
    /\ JSONIdle
    /\ SaveIdle
    /\ TxIdle

TxCalled(fn, k, dbErr, err) ==
    txCall' = [fn |-> fn, n |-> txCall.n + 1, on |-> k, dbErr |-> dbErr,
               err |-> err, engines |-> engines, txs |-> txs]

CallBeginTx(k, dbErr) ==
    /\ txCall.n < MaxTxCalls
    /\ Len(engines) < MaxEngines
    /\ LET r == Sqlite_BeginTx(engines, k, txs, dbErr)
       IN  /\ engines' = r.engines
           /\ txs' = r.db
           /\ TxCalled("BeginTx", k, dbErr, r.err)
    /\ UNCHANGED <<migVars, condVars, diffVars, replayVars, engVars, jsonVars, saveVars>>

CallCommitTx(k, dbErr) ==
    /\ txCall.n < MaxTxCalls
    /\ LET r == CommitTx(engines, k, txs, dbErr)
       IN  /\ txs' = r.db
           /\ TxCalled("CommitTx", k, dbErr, r.err)
    /\ UNCHANGED <<engines, migVars, condVars, diffVars, replayVars, engVars, jsonVars, saveVars>>

CallRollbackTx(k, dbErr) ==
    /\ txCall.n < MaxTxCalls
    /\ LET r == RollbackTx(engines, k, txs, dbErr)
       IN  /\ txs' = r.db
           /\ TxCalled("RollbackTx", k, dbErr, r.err)
    /\ UNCHANGED <<engines, migVars, condVars, diffVars, replayVars, engVars, jsonVars, saveVars>>

NextTx ==
    \E k \in DOMAIN engines, dbErr \in BOOLEAN :
        \/ CallBeginTx(k, dbErr)
        \/ CallCommitTx(k, dbErr)
        \/ CallRollbackTx(k, dbErr)

SpecTx == InitTx /\ [][NextTx]_vars

-----------------------------------------------------------------------------
(* Claims about the engine transactions *)

\* C25: CommitTx and RollbackTx return an error on an engine value on which
\* no transaction has been begun; BeginTx returns a new engine value bound to
\* the transaction and leaves the engine it was called on as it was, without
\* a transaction if it had none; an error of the database in Begin, Commit or
\* Rollback is returned.
Thm_C25_TransactionProtocol ==
    (txCall.fn # "none") =>
        LET was == txCall.engines
            k == txCall.on
        IN  /\ (txCall.fn \in {"CommitTx", "RollbackTx"} /\ was[k].tx = NilTx)
                  => txCall.err # "" /\ txs = txCall.txs
            /\ (txCall.fn = "BeginTx" /\ txCall.err = "") =>
                  /\ Len(engines) = Len(was) + 1
                  /\ SubSeq(engines, 1, Len(was)) = was
                  /\ Last(engines).tx # NilTx
                  /\ \A j \in DOMAIN was : was[j].tx # Last(engines).tx
                  /\ txs[Last(engines).tx] = "open"
            /\ txCall.dbErr => txCall.err # ""
            /\ (txCall.dbErr /\ (txCall.fn = "BeginTx" \/ was[k].tx # NilTx))
                  => txCall.err = DBError /\ txs = txCall.txs /\ engines = was
            /\ engines[1].tx = NilTx

\* BeginTx on the engine without a transaction returned a second engine
\* value, and CommitTx on the first then returned an error
Wit_C25_CommitOnUnboundEngine ==
    /\ txCall.fn = "CommitTx"
    /\ txCall.on = 1
    /\ ~txCall.dbErr
    /\ txCall.err = NoTxError
    /\ Len(engines) = 2
    /\ engines[2].tx # NilTx
    /\ txs[engines[2].tx] = "open"

====
